---------------------------- MODULE Spec2Model ----------------------------
(***************************************************************************)
(* A model of db-engine: buffer pool, heap file, B-tree index, catalog and *)
(* query executor, translated from src/db_engine/*.py.                     *)
(*                                                                         *)
(* Python lists are 0-based; every sequence here is 1-based, so a Python   *)
(* index i is the TLA+ index i+1.  Python None is the value None below.    *)
(***************************************************************************)
EXTENDS Integers, Sequences, FiniteSets, TLC

VARIABLES
    catalog,       \* Catalog object of the executor: tables, indexes, statistics
    catalog_file,  \* contents of catalog.dat, None while it does not exist
    heap_file,     \* contents of the table's heap file, None while it does not exist
    index_files,   \* index name -> contents of the index file
    buffer_pool,   \* the BufferPool
    heap_files,    \* the HeapFile object in use, None while none is open
    indexes,       \* index name -> the BTreeIndex object in use
    last,          \* the last call made and how it ended
    ref,           \* what the calls made so far should have stored
    nops           \* number of calls made

vars == <<catalog, catalog_file, heap_file, index_files, buffer_pool,
          heap_files, indexes, last, ref, nops>>

(***************************************************************************)
(* Program constants (src/config.py)                                       *)
(***************************************************************************)
BTREE_ORDER == 4
NODE_SIZE == 4096
INDEX_TEXT_MAX_LENGTH == 10
INDEX_HEADER_BYTES == 64
PAGE_HEADER_SIZE == 16
BUFFER_POOL_SIZE == 128
INT_SIZE == 4
BIGINT_SIZE == 8
BOOL_SIZE == 1
TIMESTAMP_SIZE == 8
MAX_TEXT_SIZE == 10240
MAX_TUPLE_SIZE == 65535
TOMBSTONE == 255

(***************************************************************************)
(* Bounds of the model                                                     *)
(***************************************************************************)
\* number of insert/delete calls explored after the index was bulk-loaded
MaxOps == 4
\* bytes of a heap page (8192 in src/config.py), scaled down so that a few
\* small tuples fill a page
PAGE_SIZE == 40
\* largest buffer-pool capacity of the heap-file specification
MaxPool == 2
\* number of records ever written to the heap file
MaxRecords == 3
MaxWrites == 3

(***************************************************************************)
(* Values.  A column value or index key is a record: an INT carries i, a   *)
(* TEXT carries its code points in s, NULL carries neither.  Keys of one   *)
(* index have one shape (the comparison of an int with a str or with None  *)
(* is a TypeError in Python and is not modelled).                          *)
(***************************************************************************)
None == <<>>
IntV(n) == [k |-> "int", i |-> n, s |-> <<>>]
TextV(str) == [k |-> "text", i |-> 0, s |-> str]
NullV == [k |-> "null", i |-> 0, s |-> <<>>]
\* a BOOLEAN: i is 1 for True, 0 for False
BoolV(b) == [k |-> "bool", i |-> IF b THEN 1 ELSE 0, s |-> <<>>]
\* a composite key: s holds the component values
TupleV(components) == [k |-> "tuple", i |-> 0, s |-> components]

Max(S) == CHOOSE x \in S : \A y \in S : y <= x
Min2(a, b) == IF a <= b THEN a ELSE b

\* Python's < on str: lexicographic by code point
SeqLess(s, t) ==
    \E i \in 1..Len(t) :
        /\ \A j \in 1..(i - 1) : j <= Len(s) /\ s[j] = t[j]
        /\ (i > Len(s) \/ s[i] < t[i])

\* list.insert(i, x) with the 0-based position i
ListInsert(seq, i, x) ==
    LET p == Min2(i, Len(seq))
    IN  SubSeq(seq, 1, p) \o <<x>> \o SubSeq(seq, p + 1, Len(seq))

\* del list[i] with the 1-based position i
ListDelete(seq, i) == SubSeq(seq, 1, i - 1) \o SubSeq(seq, i + 1, Len(seq))

(***************************************************************************)
(* BTreeNode                                                               *)
(***************************************************************************)
BTreeNode(is_leaf) ==
    [is_leaf |-> is_leaf, keys |-> <<>>, values |-> <<>>,
     next_leaf |-> -1, file_offset |-> -1]

\* an is_full that reports a node full one key too late
is_full_Late(node) == Len(node.keys) >= BTREE_ORDER

is_full(node) == Len(node.keys) >= BTREE_ORDER - 1

RECURSIVE truncate_key(_)
truncate_key(key) ==
    IF key.k = "tuple"
    THEN [key EXCEPT !.s = [c \in 1..Len(key.s) |-> truncate_key(key.s[c])]]
    ELSE IF key.k = "text"
         THEN [key EXCEPT !.s = SubSeq(key.s, 1, Min2(Len(key.s), INDEX_TEXT_MAX_LENGTH))]
         ELSE key

\* Python's < on two keys of the same shape
RECURSIVE KeyLess(_, _)
KeyLess(a, b) ==
    IF a.k = "tuple"
    THEN \E i \in 1..Len(b.s) :
            /\ \A j \in 1..(i - 1) : j <= Len(a.s) /\ a.s[j] = b.s[j]
            /\ (i > Len(a.s) \/ KeyLess(a.s[i], b.s[i]))
    ELSE IF a.k = "text" THEN SeqLess(a.s, b.s) ELSE a.i < b.i

compare_keys(key1, key2) ==
    LET k1 == truncate_key(key1)
        k2 == truncate_key(key2)
    IN  IF KeyLess(k1, k2) THEN -1 ELSE IF KeyLess(k2, k1) THEN 1 ELSE 0

\* the bytes of a node on disk: header fields and the two pickled lists
BTreeNode_serialize(node) ==
    [is_leaf |-> node.is_leaf, num_keys |-> Len(node.keys),
     next_leaf |-> node.next_leaf, keys |-> node.keys, values |-> node.values]

BTreeNode_deserialize(data, file_offset) ==
    [is_leaf |-> data.is_leaf, keys |-> data.keys, values |-> data.values,
     next_leaf |-> data.next_leaf, file_offset |-> file_offset]

(***************************************************************************)
(* BTreeIndex.  An index is the record ix: the handle's fields root,       *)
(* node_count and unique, and file, the index file the handle works on:    *)
(* [root_offset, node_count, unique, nodes], nodes mapping a file offset   *)
(* to the node written there.                                              *)
(***************************************************************************)
_allocate_offset(ix) == INDEX_HEADER_BYTES + (ix.node_count * NODE_SIZE)

_read_node(ix, offset) == BTreeNode_deserialize(ix.file.nodes[offset], offset)

_write_node(ix, node) ==
    [ix EXCEPT !.file.nodes =
        (node.file_offset :> BTreeNode_serialize(node)) @@ ix.file.nodes]

_update_header(ix) ==
    [ix EXCEPT !.file.root_offset = ix.root.file_offset,
               !.file.node_count = ix.node_count]

BTreeIndex_create(unique) ==
    LET root == [BTreeNode(TRUE) EXCEPT !.file_offset = INDEX_HEADER_BYTES]
    IN  [root |-> root, node_count |-> 1, unique |-> unique,
         file |-> [root_offset |-> root.file_offset, node_count |-> 1,
                   unique |-> unique,
                   nodes |-> (root.file_offset :> BTreeNode_serialize(root))]]

\* a handle opened on an existing index file
BTreeIndex_open(file) ==
    [root |-> BTreeNode_deserialize(file.nodes[file.root_offset], file.root_offset),
     node_count |-> file.node_count, unique |-> file.unique, file |-> file]

RECURSIVE _search_node(_, _, _)
_search_node(ix, node, key) ==
    LET n == Len(node.keys)
        \* first position (1-based) whose key is >= key, n+1 if there is none
        le == {j \in 1..n : compare_keys(key, node.keys[j]) <= 0}
        i == IF le = {} THEN n + 1 ELSE CHOOSE j \in le : \A j2 \in le : j <= j2
        eq == i <= n /\ compare_keys(key, node.keys[i]) = 0
    IN  IF node.is_leaf
        THEN IF eq THEN node.values[i] ELSE None
        ELSE IF eq
             THEN _search_node(ix, _read_node(ix, node.values[i + 1]), key)
             ELSE _search_node(ix, _read_node(ix, node.values[i]), key)

BTreeIndex_search(ix, key) == _search_node(ix, ix.root, truncate_key(key))

\* returns the index after the split and the parent as the split left it
_split_child(ix, parent, child_index, child) ==
    LET off == _allocate_offset(ix)
        mid == Len(child.keys) \div 2
        median_key == child.keys[mid + 1]
        nk == Len(child.keys)
        nv == Len(child.values)
        new_node ==
            IF child.is_leaf
            THEN [is_leaf |-> TRUE,
                  keys |-> SubSeq(child.keys, mid + 1, nk),
                  values |-> SubSeq(child.values, mid + 1, nv),
                  next_leaf |-> child.next_leaf, file_offset |-> off]
            ELSE [is_leaf |-> FALSE,
                  keys |-> SubSeq(child.keys, mid + 2, nk),
                  values |-> SubSeq(child.values, mid + 2, nv),
                  next_leaf |-> -1, file_offset |-> off]
        child2 ==
            IF child.is_leaf
            THEN [child EXCEPT !.keys = SubSeq(child.keys, 1, mid),
                               !.values = SubSeq(child.values, 1, mid),
                               !.next_leaf = off]
            ELSE [child EXCEPT !.keys = SubSeq(child.keys, 1, mid),
                               !.values = SubSeq(child.values, 1, mid + 1)]
        parent2 ==
            [parent EXCEPT !.keys = ListInsert(parent.keys, child_index, median_key),
                           !.values = ListInsert(parent.values, child_index + 1, off)]
        ix1 == [ix EXCEPT !.node_count = ix.node_count + 1]
    IN  [ix |-> _write_node(_write_node(_write_node(ix1, child2), new_node), parent2),
         parent |-> parent2]

\* [ix, raised].  at_root: node is the handle's in-memory root object, which
\* the code mutates in place.  depth is the number of calls the descent may
\* still nest: a descent that runs out of it ends in Python's RecursionError
\* with the index as the calls made so far left it.
RECURSIVE _insert_non_full(_, _, _, _, _, _)
_insert_non_full(ix, node, key, ctid, at_root, depth) ==
    LET n == Len(node.keys)
        ge == {j \in 1..n : compare_keys(key, node.keys[j]) >= 0}
        \* number of keys left of the insertion point (Python's i + 1)
        p == IF ge = {} THEN 0 ELSE Max(ge)
    IN  IF depth = 0 THEN [ix |-> ix, raised |-> "RecursionError"]
        ELSE IF node.is_leaf
        THEN LET node2 == [node EXCEPT !.keys = ListInsert(node.keys, p, key),
                                       !.values = ListInsert(node.values, p, ctid)]
                 ix2 == _write_node(ix, node2)
             IN  [ix |-> IF at_root THEN [ix2 EXCEPT !.root = node2] ELSE ix2,
                  raised |-> ""]
        ELSE LET child == _read_node(ix, node.values[p + 1])
             IN  IF is_full(child)
                 THEN LET sp == _split_child(ix, node, p, child)
                          ix2 == IF at_root THEN [sp.ix EXCEPT !.root = sp.parent]
                                 ELSE sp.ix
                          q == IF compare_keys(key, sp.parent.keys[p + 1]) > 0
                               THEN p + 1 ELSE p
                      IN  _insert_non_full(ix2, _read_node(ix2, sp.parent.values[q + 1]),
                                           key, ctid, FALSE, depth - 1)
                 ELSE _insert_non_full(ix, child, key, ctid, FALSE, depth - 1)

\* the descents of a well-formed tree are shorter than its number of nodes
RecursionLimit(ix) == Cardinality(DOMAIN ix.file.nodes) + 2

\* what insert makes of the outcome of its descent
insert_Descended(r) == [ix |-> r.ix, raised |-> r.raised # "", exception |-> r.raised]

\* [ix, raised, exception]: raised is TRUE when insert raises; with ValueError
\* the index is as before
BTreeIndex_insert(ix, key0, ctid) ==
    LET key == truncate_key(key0)
    IN  IF ix.unique /\ BTreeIndex_search(ix, key) # None
        THEN [ix |-> ix, raised |-> TRUE, exception |-> "ValueError"]
        ELSE IF is_full(ix.root)
             THEN LET old_root == ix.root
                      new_root == [BTreeNode(FALSE) EXCEPT
                                      !.file_offset = _allocate_offset(ix),
                                      !.values = <<old_root.file_offset>>]
                      ix1 == [ix EXCEPT !.node_count = ix.node_count + 1,
                                        !.root = new_root]
                      sp == _split_child(ix1, new_root, 0, old_root)
                      ix2 == _update_header([sp.ix EXCEPT !.root = sp.parent])
                  IN  insert_Descended(_insert_non_full(ix2, ix2.root, key, ctid, TRUE,
                                                        RecursionLimit(ix2)))
             ELSE insert_Descended(_insert_non_full(ix, ix.root, key, ctid, TRUE,
                                                    RecursionLimit(ix)))

\* [node, at_root]: the leaf the key belongs to
RECURSIVE _find_leaf_for_key(_, _, _, _)
_find_leaf_for_key(ix, node, key, at_root) ==
    IF node.is_leaf
    THEN [node |-> node, at_root |-> at_root]
    ELSE LET n == Len(node.keys)
             lt == {j \in 1..n : compare_keys(key, node.keys[j]) < 0}
             i == IF lt = {} THEN n + 1 ELSE CHOOSE j \in lt : \A j2 \in lt : j <= j2
         IN  _find_leaf_for_key(ix, _read_node(ix, node.values[i]), key, FALSE)

BTreeIndex_delete(ix, key0) ==
    LET key == truncate_key(key0)
        f == _find_leaf_for_key(ix, ix.root, key, TRUE)
        leaf == f.node
        hit == {j \in 1..Len(leaf.keys) : compare_keys(leaf.keys[j], key) = 0}
    IN  IF hit = {}
        THEN ix
        ELSE LET i == CHOOSE j \in hit : \A j2 \in hit : j <= j2
                 leaf2 == [leaf EXCEPT !.keys = ListDelete(leaf.keys, i),
                                       !.values = ListDelete(leaf.values, i)]
                 ix2 == _write_node(ix, leaf2)
             IN  IF f.at_root THEN [ix2 EXCEPT !.root = leaf2] ELSE ix2

\* the ctids range_query collects from leaf and the leaves chained after it
RECURSIVE RangeFrom(_, _, _, _)
RangeFrom(ix, leaf, start_key, end_key) ==
    LET n == Len(leaf.keys)
        past == {j \in 1..n : compare_keys(leaf.keys[j], end_key) > 0}
        \* first position past the end of the range, n + 1 if there is none
        stop == IF past = {} THEN n + 1 ELSE CHOOSE j \in past : \A j2 \in past : j <= j2
        hit == SelectSeq([j \in 1..(stop - 1) |-> j],
                         LAMBDA j : compare_keys(leaf.keys[j], start_key) >= 0)
        results == [m \in 1..Len(hit) |-> leaf.values[hit[m]]]
    IN  IF past # {} \/ leaf.next_leaf = -1 THEN results
        ELSE results \o RangeFrom(ix, _read_node(ix, leaf.next_leaf), start_key, end_key)

BTreeIndex_range_query(ix, start_key0, end_key0) ==
    RangeFrom(ix, _find_leaf_for_key(ix, ix.root, truncate_key(start_key0), TRUE).node,
              truncate_key(start_key0), truncate_key(end_key0))

(***************************************************************************)
(* Tuple: serialization of a row against a schema, a sequence of columns   *)
(* [name, datatype, nullable, unique].  Bytes are numbers 0..255.          *)
(***************************************************************************)
RECURSIVE Concat(_)
Concat(seqs) == IF seqs = <<>> THEN <<>> ELSE Head(seqs) \o Concat(Tail(seqs))

\* struct.pack of an unsigned little-endian number on n bytes
PackUnsigned(v, n) == [j \in 1..n |-> (v \div (256 ^ (j - 1))) % 256]

\* struct.pack('i', v): 4 bytes, two's complement, little-endian
PackInt(v) ==
    IF v >= 0 THEN PackUnsigned(v, INT_SIZE)
    ELSE [j \in 1..INT_SIZE |-> 255 - ((((0 - v) - 1) \div (256 ^ (j - 1))) % 256)]

RECURSIVE UnpackUnsigned(_)
UnpackUnsigned(b) == IF b = <<>> THEN 0 ELSE Head(b) + 256 * UnpackUnsigned(Tail(b))

\* struct.unpack('i', b)
UnpackInt(b) ==
    IF b[INT_SIZE] < 128 THEN UnpackUnsigned(b)
    ELSE 0 - UnpackUnsigned([j \in 1..INT_SIZE |-> 255 - b[j]]) - 1

\* the n low bytes of v >= 0, little-endian
RECURSIVE PackBytes(_, _)
PackBytes(v, n) == IF n = 0 THEN <<>> ELSE <<v % 256>> \o PackBytes(v \div 256, n - 1)

\* struct.pack('q', v): 8 bytes, two's complement, little-endian
PackLong(v) ==
    IF v >= 0 THEN PackBytes(v, BIGINT_SIZE)
    ELSE [j \in 1..BIGINT_SIZE |-> 255 - PackBytes(0 - (v + 1), BIGINT_SIZE)[j]]

\* struct.unpack('q', b)
UnpackLong(b) ==
    IF b[BIGINT_SIZE] < 128 THEN UnpackUnsigned(b)
    ELSE 0 - UnpackUnsigned([j \in 1..BIGINT_SIZE |-> 255 - b[j]]) - 1

\* str.encode('utf-8') for code points below 2048
RECURSIVE EncodeUtf8(_)
EncodeUtf8(str) ==
    IF str = <<>> THEN <<>>
    ELSE (IF Head(str) < 128 THEN <<Head(str)>>
          ELSE <<192 + (Head(str) \div 64), 128 + (Head(str) % 64)>>)
         \o EncodeUtf8(Tail(str))

\* a decoder that takes every byte for a code point (latin-1)
DecodeUtf8_Latin1(b) == b

\* bytes.decode('utf-8') of bytes EncodeUtf8 produced
RECURSIVE DecodeUtf8(_)
DecodeUtf8(b) ==
    IF b = <<>> THEN <<>>
    ELSE IF Head(b) < 128 THEN <<Head(b)>> \o DecodeUtf8(Tail(b))
         ELSE <<(Head(b) - 192) * 64 + (b[2] - 128)>> \o DecodeUtf8(Tail(Tail(b)))

has_nullable_columns(schema) == \E c \in 1..Len(schema) : schema[c].nullable

get_column_index(schema, name) == CHOOSE c \in 1..Len(schema) : schema[c].name = name

\* the null bitmap: one bit per nullable column in schema order, LSB first
NullBitmap(values, schema) ==
    LET nullable == {c \in 1..Len(schema) : schema[c].nullable}
        \* bit position of nullable column c
        pos(c) == Cardinality({d \in nullable : d < c})
        nbytes == (Cardinality(nullable) + 7) \div 8
        bit(c) == IF c > Len(values) \/ values[c].k = "null"
                  THEN 2 ^ (pos(c) % 8) ELSE 0
        RECURSIVE Sum(_)
        Sum(S) == IF S = {} THEN 0
                  ELSE LET c == CHOOSE x \in S : TRUE IN bit(c) + Sum(S \ {c})
    IN  [b \in 1..nbytes |-> Sum({c \in nullable : pos(c) \div 8 = b - 1})]

SerializeValue(value, col) ==
    IF col.datatype = "INT" THEN PackInt(value.i)
    ELSE IF col.datatype \in {"BIGINT", "TIMESTAMP"} THEN PackLong(value.i)
    ELSE IF col.datatype = "BOOLEAN" THEN <<value.i>>
    ELSE LET text_bytes == EncodeUtf8(value.s)
             cut == SubSeq(text_bytes, 1, Min2(Len(text_bytes), MAX_TEXT_SIZE))
         IN  PackUnsigned(Len(cut), 2) \o cut

Tuple_serialize(values, schema) ==
    (IF has_nullable_columns(schema) THEN NullBitmap(values, schema) ELSE <<>>)
    \o Concat([c \in 1..Len(schema) |->
                 IF c > Len(values) \/ values[c].k = "null" THEN <<>>
                 ELSE SerializeValue(values[c], schema[c])])

_estimate_size(values, schema) ==
    LET nullable == {c \in 1..Len(schema) : schema[c].nullable}
        RECURSIVE Sizes(_)
        Sizes(c) ==
            IF c > Len(schema) THEN 0
            ELSE (IF c <= Len(values) /\ values[c].k # "null"
                  THEN IF schema[c].datatype = "INT" THEN INT_SIZE
                       ELSE IF schema[c].datatype = "BIGINT" THEN BIGINT_SIZE
                       ELSE IF schema[c].datatype = "BOOLEAN" THEN BOOL_SIZE
                       ELSE IF schema[c].datatype = "TIMESTAMP" THEN TIMESTAMP_SIZE
                       ELSE 2 + Len(EncodeUtf8(values[c].s))
                  ELSE 0) + Sizes(c + 1)
    IN  (IF nullable # {} THEN (Cardinality(nullable) + 7) \div 8 ELSE 0) + Sizes(1)

\* Tuple(values, schema) raises ValueError for an oversized row
Tuple_raises(values, schema) == _estimate_size(values, schema) > MAX_TUPLE_SIZE

\* [value, offset]: the value of column col read at offset and the offset
\* after it
DeserializeValue(data, col, offset) ==
    IF col.datatype = "INT"
    THEN [value |-> IntV(UnpackInt(SubSeq(data, offset + 1, offset + INT_SIZE))),
          offset |-> offset + INT_SIZE]
    ELSE IF col.datatype = "BIGINT"
    THEN [value |-> IntV(UnpackLong(SubSeq(data, offset + 1, offset + BIGINT_SIZE))),
          offset |-> offset + BIGINT_SIZE]
    ELSE IF col.datatype = "BOOLEAN"
    THEN [value |-> BoolV(data[offset + 1] # 0), offset |-> offset + BOOL_SIZE]
    ELSE IF col.datatype = "TIMESTAMP"
    THEN [value |-> IntV(UnpackLong(SubSeq(data, offset + 1, offset + TIMESTAMP_SIZE))),
          offset |-> offset + TIMESTAMP_SIZE]
    ELSE LET text_len == UnpackUnsigned(SubSeq(data, offset + 1, offset + 2))
         IN  [value |-> TextV(DecodeUtf8(SubSeq(data, offset + 3, offset + 2 + text_len))),
              offset |-> offset + 2 + text_len]

RECURSIVE DeserializeFrom(_, _, _, _, _)
\* the values of the columns after column c, whose value is read
DeserializeRest(data, schema, c, read, nullable_index) ==
    <<read.value>> \o DeserializeFrom(data, schema, c + 1, read.offset, nullable_index)

DeserializeFrom(data, schema, c, offset, nullable_index) ==
    IF c > Len(schema) THEN <<>>
    ELSE LET col == schema[c]
             nbytes == (Cardinality({d \in 1..Len(schema) : schema[d].nullable}) + 7) \div 8
             is_null == /\ col.nullable
                        /\ nbytes > 0
                        /\ (data[(nullable_index \div 8) + 1]
                              \div (2 ^ (nullable_index % 8))) % 2 = 1
             ni == IF col.nullable /\ nbytes > 0 THEN nullable_index + 1
                   ELSE nullable_index
         IN  IF is_null
             THEN <<NullV>> \o DeserializeFrom(data, schema, c + 1, offset, ni)
             ELSE DeserializeRest(data, schema, c, DeserializeValue(data, col, offset), ni)

Tuple_deserialize(data, schema) ==
    LET bitmap_size ==
            IF has_nullable_columns(schema)
            THEN (Cardinality({d \in 1..Len(schema) : schema[d].nullable}) + 7) \div 8
            ELSE 0
    IN  DeserializeFrom(data, schema, 1, bitmap_size, 0)

(***************************************************************************)
(* Page: [page_number, tuples, free_space, dead_tuple_count], tuples a     *)
(* sequence of [offset, data].  A page on disk is its header fields and    *)
(* the concatenated records (the zero padding is left out).                *)
(***************************************************************************)
Page(page_number) ==
    [page_number |-> page_number, tuples |-> <<>>,
     free_space |-> PAGE_SIZE - PAGE_HEADER_SIZE, dead_tuple_count |-> 0]

\* a can_fit that refuses a tuple that fills the page exactly
can_fit_Strict(page, tuple_size) == page.free_space > tuple_size

can_fit(page, tuple_size) == page.free_space >= tuple_size

IsTombstone(data) == Len(data) > 0 /\ data[1] = TOMBSTONE

\* [page, offset]; the caller checks can_fit
add_tuple(page, tuple_data) ==
    LET offset == PAGE_HEADER_SIZE + (PAGE_SIZE - PAGE_HEADER_SIZE - page.free_space)
    IN  [page |-> [page EXCEPT !.tuples = Append(page.tuples,
                                              [offset |-> offset, data |-> tuple_data]),
                               !.free_space = page.free_space - Len(tuple_data)],
         offset |-> offset]

\* positions of the records stored at an offset
SlotsAt(page, offset) == {j \in 1..Len(page.tuples) : page.tuples[j].offset = offset}

get_tuple(page, offset) ==
    IF SlotsAt(page, offset) = {} THEN None
    ELSE LET j == CHOOSE x \in SlotsAt(page, offset) : \A y \in SlotsAt(page, offset) : x <= y
         IN  IF IsTombstone(page.tuples[j].data) THEN None ELSE page.tuples[j].data

\* the page after mark_deleted; the caller checks that a record is there
mark_deleted(page, offset) ==
    LET j == CHOOSE x \in SlotsAt(page, offset) : \A y \in SlotsAt(page, offset) : x <= y
    IN  [page EXCEPT !.tuples[j].data = <<TOMBSTONE>> \o Tail(page.tuples[j].data),
                     !.dead_tuple_count = page.dead_tuple_count + 1]

Page_serialize(page) ==
    [free_space |-> page.free_space, tuple_count |-> Len(page.tuples),
     dead_tuple_count |-> page.dead_tuple_count,
     body |-> Concat([j \in 1..Len(page.tuples) |-> page.tuples[j].data])]

\* reads the header only: the records of the body are not rebuilt
Page_deserialize(data, page_number) ==
    [page_number |-> page_number, tuples |-> <<>>,
     free_space |-> data.free_space, dead_tuple_count |-> data.dead_tuple_count]

(***************************************************************************)
(* A heap is the record hs of the three things the HeapFile methods work   *)
(* on: h, the HeapFile object [page_count, free_space_map]; pool, the      *)
(* BufferPool [size, cache, dirty_pages], cache a sequence of [key, page]  *)
(* from least to most recently used; file, the heap file [page_count,      *)
(* pages].  Page number n is position n+1 of pages and free_space_map.     *)
(* The model has one heap file, so a cache key is the page number.         *)
(***************************************************************************)
BufferPool(size) == [size |-> size, cache |-> <<>>, dirty_pages |-> {}]

CachePos(pool, key) == {j \in 1..Len(pool.cache) : pool.cache[j].key = key}

write_to_disk(file, page) ==
    [file EXCEPT !.pages[page.page_number + 1] = Page_serialize(page)]

\* an _evict that takes the most recently used page, popitem(last=True)
_evict_Newest(pool, file) ==
    IF pool.cache = <<>> THEN [pool |-> pool, file |-> file]
    ELSE LET e == pool.cache[Len(pool.cache)]
         IN  [pool |-> [pool EXCEPT !.cache = SubSeq(pool.cache, 1, Len(pool.cache) - 1),
                                    !.dirty_pages = pool.dirty_pages \ {e.key}],
              file |-> IF e.key \in pool.dirty_pages
                       THEN write_to_disk(file, e.page) ELSE file]

\* [pool, file]: the least recently used page leaves, written if dirty
_evict(pool, file) ==
    IF pool.cache = <<>> THEN [pool |-> pool, file |-> file]
    ELSE LET e == Head(pool.cache)
         IN  [pool |-> [pool EXCEPT !.cache = Tail(pool.cache),
                                    !.dirty_pages = pool.dirty_pages \ {e.key}],
              file |-> IF e.key \in pool.dirty_pages
                       THEN write_to_disk(file, e.page) ELSE file]

_read_page_direct(file, page_num) == Page_deserialize(file.pages[page_num + 1], page_num)

\* [pool, file, page]
get_page(pool, file, page_num) ==
    IF CachePos(pool, page_num) # {}
    THEN LET j == CHOOSE x \in CachePos(pool, page_num) : TRUE
         IN  [pool |-> [pool EXCEPT !.cache = Append(ListDelete(pool.cache, j),
                                                     pool.cache[j])],
              file |-> file, page |-> pool.cache[j].page]
    ELSE LET page == _read_page_direct(file, page_num)
             ev == IF Len(pool.cache) >= pool.size THEN _evict(pool, file)
                   ELSE [pool |-> pool, file |-> file]
         IN  [pool |-> [ev.pool EXCEPT !.cache = Append(ev.pool.cache,
                                                 [key |-> page_num, page |-> page])],
              file |-> ev.file, page |-> page]

mark_dirty(pool, page_num) ==
    IF CachePos(pool, page_num) # {}
    THEN [pool EXCEPT !.dirty_pages = pool.dirty_pages \cup {page_num}]
    ELSE pool

\* the page object the cache holds under a key is mutated in place
SetCached(pool, page) ==
    [pool EXCEPT !.cache = [j \in 1..Len(pool.cache) |->
        IF pool.cache[j].key = page.page_number
        THEN [key |-> pool.cache[j].key, page |-> page] ELSE pool.cache[j]]]

\* a flush_all that clears the dirty set without writing
flush_all_Forget(pool, file) == [pool |-> [pool EXCEPT !.dirty_pages = {}], file |-> file]

\* [pool, file]
flush_all(pool, file) ==
    LET RECURSIVE Flush(_, _)
        Flush(keys, f) ==
            IF keys = {} THEN f
            ELSE LET key == CHOOSE x \in keys : TRUE
                     pos == CachePos(pool, key)
                 IN  Flush(keys \ {key},
                           IF pos # {}
                           THEN write_to_disk(f, pool.cache[CHOOSE j \in pos : TRUE].page)
                           ELSE f)
    IN  [pool |-> [pool EXCEPT !.dirty_pages = {}],
         file |-> Flush(pool.dirty_pages, file)]

\* the pool without the page, which is no longer dirty
invalidate(pool, page_num) ==
    [pool EXCEPT !.cache = SelectSeq(pool.cache, LAMBDA e : e.key # page_num),
                 !.dirty_pages = pool.dirty_pages \ {page_num}]

HeapFile_create == [page_count |-> 0, pages |-> <<>>]

\* [raised, h]: _rebuild_fsm calls _read_page_direct(page_num) without the
\* file path, a TypeError as soon as the file has a page
HeapFile_open(file) ==
    IF file.page_count > 0
    THEN [raised |-> "TypeError", h |-> None]
    ELSE [raised |-> "", h |-> [page_count |-> file.page_count, free_space_map |-> <<>>]]

\* the page number, NoPage for Python's None
NoPage == 0 - 1
_find_page_with_space(h, required_space) ==
    LET fit == {n \in 1..Len(h.free_space_map) : h.free_space_map[n] >= required_space}
    IN  IF fit = {} THEN NoPage ELSE (CHOOSE n \in fit : \A m \in fit : n <= m) - 1

\* the heap after a new empty page was appended to the file
_create_new_page(hs) ==
    LET page == Page(hs.h.page_count)
    IN  [hs EXCEPT !.file.pages = [n \in 1..Max({Len(hs.file.pages), page.page_number + 1}) |->
                                      IF n = page.page_number + 1 THEN Page_serialize(page)
                                      ELSE hs.file.pages[n]],
                   !.file.page_count = hs.h.page_count + 1,
                   !.h.page_count = hs.h.page_count + 1,
                   !.h.free_space_map = Append(hs.h.free_space_map, page.free_space)]

\* _read_page on a heap: [hs, page]
_read_page(hs, page_num) ==
    LET g == get_page(hs.pool, hs.file, page_num)
    IN  [hs |-> [hs EXCEPT !.pool = g.pool, !.file = g.file], page |-> g.page]

\* [hs, raised, ctid]
insert_tuple(hs, tuple_data) ==
    LET tuple_size == Len(tuple_data)
        found == _find_page_with_space(hs.h, tuple_size)
        hs1 == IF found = NoPage THEN _create_new_page(hs) ELSE hs
        page_num == IF found = NoPage THEN hs.h.page_count ELSE found
        r == _read_page(hs1, page_num)
    IN  IF ~can_fit(r.page, tuple_size)
        THEN [hs |-> r.hs, raised |-> "ValueError", ctid |-> None]
        ELSE LET a == add_tuple(r.page, tuple_data)
                 pool2 == mark_dirty(SetCached(r.hs.pool, a.page), page_num)
             IN  [hs |-> [r.hs EXCEPT !.pool = pool2,
                                      !.h.free_space_map[page_num + 1] = a.page.free_space],
                  raised |-> "", ctid |-> <<page_num, a.offset>>]

\* [hs, tuple]: tuple is the row's values, or None
read_tuple(hs, ctid, schema) ==
    LET r == _read_page(hs, ctid[1])
        tuple_data == get_tuple(r.page, ctid[2])
    IN  [hs |-> r.hs,
         tuple |-> IF tuple_data = None THEN None
                   ELSE Tuple_deserialize(tuple_data, schema)]

\* [hs, raised]
delete_tuple(hs, ctid) ==
    LET r == _read_page(hs, ctid[1])
    IN  IF SlotsAt(r.page, ctid[2]) = {}
        THEN [hs |-> r.hs, raised |-> "ValueError"]
        ELSE [hs |-> [r.hs EXCEPT !.pool =
                        mark_dirty(SetCached(r.hs.pool, mark_deleted(r.page, ctid[2])),
                                   ctid[1])],
              raised |-> ""]

\* [hs, rows]: rows is the sequence of [values, ctid] the scan yields
RECURSIVE ScanFrom(_, _, _)
ScanFrom(hs, page_num, schema) ==
    IF page_num >= hs.h.page_count THEN [hs |-> hs, rows |-> <<>>]
    ELSE LET r == _read_page(hs, page_num)
             live == SelectSeq(r.page.tuples, LAMBDA t : ~IsTombstone(t.data))
             here == [j \in 1..Len(live) |->
                        [values |-> Tuple_deserialize(live[j].data, schema),
                         ctid |-> <<page_num, live[j].offset>>]]
             rest == ScanFrom(r.hs, page_num + 1, schema)
         IN  [hs |-> rest.hs, rows |-> here \o rest.rows]

scan_all(hs, schema) == ScanFrom(hs, 0, schema)

\* new_page of vacuum after add_tuple of every record of datas
RECURSIVE AddAll(_, _)
AddAll(page, datas) ==
    IF datas = <<>> THEN page
    ELSE AddAll(add_tuple(page, Head(datas)).page, Tail(datas))

\* the page vacuum builds from a page: its records that do not start with
\* the tombstone byte, added in order to an empty page of the same number
Compacted(page) ==
    AddAll(Page(page.page_number),
           [j \in 1..Len(SelectSeq(page.tuples, LAMBDA t : ~IsTombstone(t.data))) |->
               SelectSeq(page.tuples, LAMBDA t : ~IsTombstone(t.data))[j].data])

\* the heap after new_page took the place of the cached page, was marked
\* dirty and entered the free-space map
VacuumPage(hs, new_page) ==
    [hs EXCEPT !.pool = mark_dirty(SetCached(hs.pool, new_page), new_page.page_number),
               !.h.free_space_map[new_page.page_number + 1] = new_page.free_space]

RECURSIVE VacuumFrom(_, _)
\* one turn of the loop of vacuum, r the outcome of _read_page(page_num)
VacuumStep(r, page_num) ==
    IF r.page.dead_tuple_count = 0 THEN VacuumFrom(r.hs, page_num + 1)
    ELSE VacuumFrom(VacuumPage(r.hs, Compacted(r.page)), page_num + 1)

VacuumFrom(hs, page_num) ==
    IF page_num >= hs.h.page_count THEN hs
    ELSE VacuumStep(_read_page(hs, page_num), page_num)

\* the heap once flush_all wrote pool and file
Flushed(hs, f) == [hs EXCEPT !.pool = f.pool, !.file = f.file]

\* the heap after vacuum()
HeapFile_vacuum(hs) ==
    Flushed(VacuumFrom(hs, 0),
            flush_all(VacuumFrom(hs, 0).pool, VacuumFrom(hs, 0).file))

(***************************************************************************)
(* SpecBT: one BTreeIndex used directly, as src/tests/test_btree.py does.  *)
(* The index starts bulk-loaded with a prefix of the keys of the test      *)
(* (test_btree.py:144), each with the ctid (0, key * 10); then at most     *)
(* MaxOps calls of insert and delete follow.  ref maps every key to the    *)
(* ctid it was last inserted with, None when it is absent.  last keeps,    *)
(* besides the last call: present, whether the key of the call was in ref; *)
(* reopened, whether the handle in use was opened from the index file;     *)
(* distinct, whether no key was accepted twice so far.                     *)
(***************************************************************************)
EmptyFn == [x \in {} |-> None]

Ix(handle, file) ==
    [root |-> handle.root, node_count |-> handle.node_count,
     unique |-> handle.unique, file |-> file]

HandleOf(ix) == [root |-> ix.root, node_count |-> ix.node_count, unique |-> ix.unique]

LoadKeys == <<50, 10, 90, 30, 70, 20, 40, 60, 80, 100, 5, 15, 25, 35>>
OpKeys == {1, 20, 30, 55}
OpCtids == {<<1, 16>>, <<1, 23>>}
AllKeys == {LoadKeys[j] : j \in 1..Len(LoadKeys)} \cup OpKeys

RECURSIVE Loaded(_, _)
Loaded(unique, n) ==
    IF n = 0 THEN BTreeIndex_create(unique)
    ELSE BTreeIndex_insert(Loaded(unique, n - 1), IntV(LoadKeys[n]),
                           <<0, LoadKeys[n] * 10>>).ix

TheIndex == Ix(indexes["ix"], index_files["ix"])

\* the child offsets of a node
Children(node) == IF node.is_leaf THEN {} ELSE {node.values[j] : j \in 1..Len(node.values)}

\* no descent from the nodes at offsets is longer than depth
RECURSIVE Below(_, _, _)
Below(ix, offsets, depth) ==
    IF offsets = {} THEN TRUE
    ELSE IF depth = 0 THEN FALSE
         ELSE Below(ix, UNION {Children(ix.file.nodes[o]) : o \in offsets}, depth - 1)

\* the recursive descents of search, insert and delete return: no node of the
\* file is below itself (on a file with such a node they end in Python's
\* RecursionError, and the model makes no further call)
Descends(ix) == Below(ix, Children(ix.root), Cardinality(DOMAIN ix.file.nodes))

InitBT ==
    /\ \E unique \in BOOLEAN, n \in 0..Len(LoadKeys) :
          /\ indexes = ("ix" :> HandleOf(Loaded(unique, n)))
          /\ index_files = ("ix" :> Loaded(unique, n).file)
          /\ ref = [key \in AllKeys |->
                      IF \E j \in 1..n : LoadKeys[j] = key THEN <<0, key * 10>> ELSE None]
    /\ catalog = None /\ catalog_file = None /\ heap_file = None
    /\ buffer_pool = None /\ heap_files = None
    /\ last = [op |-> "create", raised |-> "", present |-> FALSE,
               reopened |-> FALSE, distinct |-> TRUE]
    /\ nops = 0

\* insert(key, ctid) of a key that is not in the index
BtInsert(key, ctid) ==
    /\ nops < MaxOps
    /\ Descends(TheIndex)
    /\ ref[key] = None
    /\ LET r == BTreeIndex_insert(TheIndex, IntV(key), ctid)
       IN  /\ indexes' = [indexes EXCEPT !["ix"] = HandleOf(r.ix)]
           /\ index_files' = [index_files EXCEPT !["ix"] = r.ix.file]
           /\ ref' = IF r.raised THEN ref ELSE [ref EXCEPT ![key] = ctid]
           /\ last' = [last EXCEPT !.op = "insert", !.present = FALSE,
                                    !.raised = r.exception]
    /\ nops' = nops + 1
    /\ UNCHANGED <<catalog, catalog_file, heap_file, buffer_pool, heap_files>>

\* insert(key, ctid) on a unique index of a key that is in the index
BtInsertPresent(key, ctid) ==
    /\ nops < MaxOps
    /\ Descends(TheIndex)
    /\ ref[key] # None
    /\ indexes["ix"].unique
    /\ LET r == BTreeIndex_insert(TheIndex, IntV(key), ctid)
       IN  /\ indexes' = [indexes EXCEPT !["ix"] = HandleOf(r.ix)]
           /\ index_files' = [index_files EXCEPT !["ix"] = r.ix.file]
           /\ ref' = IF r.raised THEN ref ELSE [ref EXCEPT ![key] = ctid]
           /\ last' = [last EXCEPT !.op = "insert", !.present = TRUE,
                                    !.raised = r.exception,
                                    !.distinct = @ /\ r.raised]
    /\ nops' = nops + 1
    /\ UNCHANGED <<catalog, catalog_file, heap_file, buffer_pool, heap_files>>

\* a new BTreeIndex object on the same file, open()
BtReopen ==
    /\ indexes' = [indexes EXCEPT !["ix"] = HandleOf(BTreeIndex_open(index_files["ix"]))]
    /\ last' = [last EXCEPT !.op = "open", !.raised = "", !.present = FALSE,
                            !.reopened = TRUE]
    /\ UNCHANGED <<catalog, catalog_file, heap_file, index_files, buffer_pool,
                   heap_files, ref, nops>>

\* delete(key) of any key, present or not
BtDelete(key) ==
    /\ nops < MaxOps
    /\ Descends(TheIndex)
    /\ LET ix2 == BTreeIndex_delete(TheIndex, IntV(key))
       IN  /\ indexes' = [indexes EXCEPT !["ix"] = HandleOf(ix2)]
           /\ index_files' = [index_files EXCEPT !["ix"] = ix2.file]
    /\ ref' = [ref EXCEPT ![key] = None]
    /\ last' = [last EXCEPT !.op = "delete", !.raised = "", !.present = ref[key] # None]
    /\ nops' = nops + 1
    /\ UNCHANGED <<catalog, catalog_file, heap_file, buffer_pool, heap_files>>

NextBT ==
    \/ \E key \in OpKeys, ctid \in OpCtids : BtInsert(key, ctid)
    \/ \E key \in OpKeys : BtDelete(key)
    \/ \E key \in OpKeys, ctid \in OpCtids : BtInsertPresent(key, ctid)
    \/ BtReopen

SpecBT == InitBT /\ [][NextBT]_vars

\* C10: on the handle that made the inserts and deletes, search(k) returns the
\* ctid most recently inserted for k when k is in the index and None when it
\* is not, whatever splits occurred
C10_SearchReturnsLastInserted ==
    ~last.reopened =>
    \A key \in AllKeys : BTreeIndex_search(TheIndex, IntV(key)) = ref[key]

\* C12: insert(key, ctid) on a unique index that holds an entry with the same
\* normalised key raises and leaves the index unchanged: no node is split,
\* allocated or rewritten, and every search returns what it returned before
C12_DuplicateInsertRaisesAndChangesNothing ==
    [][(last'.op = "insert" /\ last'.present /\ ~last.reopened)
           => /\ last'.raised = "ValueError"
              /\ index_files' = index_files
              /\ indexes' = indexes]_vars

\* C13: on a handle that was opened from the index file, after any inserts
\* and deletes before and after the open, the descents return and search
\* finds every key of the index with its ctid (no node allocated through the
\* opened handle took the file offset of an existing node)
C13_ReopenedIndexFindsEveryKey ==
    last.reopened =>
        /\ Descends(TheIndex)
        /\ \A key \in AllKeys : BTreeIndex_search(TheIndex, IntV(key)) = ref[key]

\* the keys of S in ascending order
RECURSIVE Ascending(_)
Ascending(S) ==
    IF S = {} THEN <<>>
    ELSE LET least == CHOOSE x \in S : \A y \in S : x <= y
         IN  <<least>> \o Ascending(S \ {least})

\* the node at the head of the leaf chain
RECURSIVE Leftmost(_, _)
Leftmost(ix, node) ==
    IF node.is_leaf THEN node ELSE Leftmost(ix, _read_node(ix, node.values[1]))

\* the leaves met by following next_leaf from leaf on
RECURSIVE ChainFrom(_, _)
ChainFrom(ix, leaf) ==
    <<leaf>> \o (IF leaf.next_leaf = -1 THEN <<>>
                 ELSE ChainFrom(ix, _read_node(ix, leaf.next_leaf)))

LeafChain(ix) == ChainFrom(ix, Leftmost(ix, ix.root))

\* the nodes of the tree under node, node first, children from left to right
RECURSIVE TreeNodes(_, _)
TreeNodes(ix, node) ==
    <<node>> \o (IF node.is_leaf THEN <<>>
                 ELSE Concat([j \in 1..Len(node.values) |->
                                 TreeNodes(ix, _read_node(ix, node.values[j]))]))

\* the depths at which the leaves under node lie, node being at depth
RECURSIVE LeafDepths(_, _, _)
LeafDepths(ix, node, depth) ==
    IF node.is_leaf THEN {depth}
    ELSE UNION {LeafDepths(ix, _read_node(ix, node.values[j]), depth + 1) :
                    j \in 1..Len(node.values)}

\* the keys that are in the index
KeysIn == {key \in AllKeys : ref[key] # None}

\* bounds of the range queries asked
RangeKeys == {1, 20, 35, 100}

\* C11: on an index of distinct keys that was filled by inserts and deletes,
\* range_query(lo, hi) returns the ctids of exactly the keys k with
\* lo <= k <= hi, each once, in ascending key order, and the empty list when
\* lo > hi
C11_RangeQueryReturnsKeysInRange ==
    (last.distinct /\ ~last.reopened) =>
    \A lo \in RangeKeys, hi \in RangeKeys :
        LET inside == Ascending({key \in KeysIn : lo <= key /\ key <= hi})
        IN  BTreeIndex_range_query(TheIndex, IntV(lo), IntV(hi))
                = [m \in 1..Len(inside) |-> ref[inside[m]]]

\* C14: after any inserts and deletes of distinct keys, following next_leaf
\* from the leftmost leaf visits the leaves of the tree from left to right,
\* each once, and yields exactly the keys of the index in ascending order;
\* so a split left the old leaf pointing to the new one and the new one to
\* the old successor
C14_LeafChainYieldsKeysAscending ==
    (last.distinct /\ ~last.reopened) =>
    LET chain == LeafChain(TheIndex)
        leaves == SelectSeq(TreeNodes(TheIndex, TheIndex.root), LAMBDA node : node.is_leaf)
        inside == Ascending(KeysIn)
    IN  /\ [j \in 1..Len(chain) |-> chain[j].file_offset]
              = [j \in 1..Len(leaves) |-> leaves[j].file_offset]
        /\ Cardinality({chain[j].file_offset : j \in 1..Len(chain)}) = Len(chain)
        /\ Concat([j \in 1..Len(chain) |-> chain[j].keys])
              = [m \in 1..Len(inside) |-> IntV(inside[m])]

\* C15: after any inserts and deletes every node holds at most BTREE_ORDER - 1
\* keys, a leaf as many ctids as keys, an internal node one child offset more
\* than keys; the child offsets of the tree are offsets of written nodes and
\* no two are equal; all leaves lie at the same depth
C15_NodesWellFormed ==
    ~last.reopened =>
    LET nodes == TreeNodes(TheIndex, TheIndex.root)
    IN  /\ \A j \in 1..Len(nodes) :
              /\ Len(nodes[j].keys) <= BTREE_ORDER - 1
              /\ Len(nodes[j].values) = Len(nodes[j].keys) + (IF nodes[j].is_leaf THEN 0 ELSE 1)
              /\ Children(nodes[j]) \subseteq DOMAIN index_files["ix"].nodes
        /\ Cardinality({nodes[j].file_offset : j \in 1..Len(nodes)}) = Len(nodes)
        /\ Cardinality(LeafDepths(TheIndex, TheIndex.root, 0)) = 1

\* C15 witness: an insert went into a tree of three levels and left it with
\* three internal nodes below the root, one of them made by the split of a
\* full internal node met on the way down
C15_Witness ==
    /\ ~last.reopened /\ last.op = "insert" /\ last.raised = ""
    /\ LeafDepths(TheIndex, TheIndex.root, 0) = {2}
    /\ Len(SelectSeq(TreeNodes(TheIndex, TheIndex.root),
                     LAMBDA node : ~node.is_leaf)) >= 4

(***************************************************************************)
(* The table of the model: t(id INT PRIMARY KEY, a TEXT NOT NULL).  Two of *)
(* the TEXT values differ only after their first INDEX_TEXT_MAX_LENGTH     *)
(* characters; 255 is an id whose first serialized byte is 0xFF.           *)
(***************************************************************************)
Schema ==
    <<[name |-> "id", datatype |-> "INT", nullable |-> FALSE, unique |-> FALSE],
      [name |-> "a", datatype |-> "TEXT", nullable |-> FALSE, unique |-> FALSE]>>
primary_key == <<"id">>

(* _parse_create_table: a column declaration is [name, datatype, constraints] *)
(* with constraints a subset of {"PRIMARY KEY", "NOT NULL", "UNIQUE"};        *)
(* table_pk is the column list of a table-level PRIMARY KEY (...) clause,     *)
(* <<>> without one.  A column is nullable unless it carries PRIMARY KEY or   *)
(* NOT NULL inline.                                                           *)
ParsedColumn(decl) ==
    [name |-> decl.name, datatype |-> decl.datatype,
     nullable |-> ~("PRIMARY KEY" \in decl.constraints \/ "NOT NULL" \in decl.constraints),
     unique |-> "UNIQUE" \in decl.constraints]

RECURSIVE InlineKey(_)
InlineKey(decls) ==
    IF decls = <<>> THEN <<>>
    ELSE (IF "PRIMARY KEY" \in Head(decls).constraints THEN <<Head(decls).name>> ELSE <<>>)
         \o InlineKey(Tail(decls))

_parse_create_table(decls, table_pk) ==
    [columns |-> [c \in 1..Len(decls) |-> ParsedColumn(decls[c])],
     primary_key |-> InlineKey(decls) \o table_pk]

Short == <<120>>
Long1 == <<97, 98, 99, 100, 101, 102, 103, 104, 105, 106, 49>>
Long2 == <<97, 98, 99, 100, 101, 102, 103, 104, 105, 106, 50>>
Ids == {1, 2, 255}
Texts == {Short, Long1, Long2}
\* a TEXT that makes a record one byte longer than Short does
Two == <<120, 121>>
\* the rows of the heap-file specification: records of 7, 8 and 17 bytes
Rows == {<<IntV(id), TextV(a)>> : id \in Ids, a \in {Short, Two, Long1}}

(***************************************************************************)
(* Catalog: [tables, indexes, statistics].  tables maps a table name to    *)
(* its TableSchema [columns, primary_key], indexes is the IndexMetadata     *)
(* records in registration order, statistics maps a table name to its      *)
(* TableStatistics.                                                        *)
(***************************************************************************)
TableStatistics ==
    [row_count |-> 0, page_count |-> 0, dead_tuple_count |-> 0, modification_count |-> 0]

IndexMetadata(index_name, table_name, columns, unique) ==
    [index_name |-> index_name, table_name |-> table_name,
     columns |-> columns, unique |-> unique]

Catalog == [tables |-> EmptyFn, indexes |-> <<>>, statistics |-> EmptyFn]

(* The dictionary self.indexes, kept as the sequence of its values in        *)
(* insertion order; the key of a value is f"{table_name}_{index_name}".       *)
(* Assigning to a key that is present replaces the value at its place.        *)
IndexKey(table_name, index_name) == table_name \o "_" \o index_name

KeyOfMeta(meta) == IndexKey(meta.table_name, meta.index_name)

HasIndexKey(metas, key) == \E j \in 1..Len(metas) : KeyOfMeta(metas[j]) = key

SetIndex(metas, meta) ==
    IF HasIndexKey(metas, KeyOfMeta(meta))
    THEN [j \in 1..Len(metas) |->
             IF KeyOfMeta(metas[j]) = KeyOfMeta(meta) THEN meta ELSE metas[j]]
    ELSE Append(metas, meta)

\* the contents of catalog.dat: magic, version and the pickled dictionaries
Catalog_save(cat) == [magic |-> "CTLG", version |-> 1, data |-> cat]

\* [raised, cat]
Catalog_load(file) ==
    IF file = None THEN [raised |-> "", cat |-> Catalog]
    ELSE IF file.magic # "CTLG" \/ file.version # 1
         THEN [raised |-> "ValueError", cat |-> Catalog]
         ELSE [raised |-> "", cat |-> file.data]

get_column(schema, name) == {c \in 1..Len(schema) : schema[c].name = name}

\* [raised, cat]
Catalog_create_table(cat, table_name, schema, pk) ==
    IF \/ table_name \in DOMAIN cat.tables
       \/ pk = <<>>
       \/ \E c \in 1..Len(pk) : get_column(schema, pk[c]) = {}
    THEN [raised |-> "ValueError", cat |-> cat]
    ELSE [raised |-> "",
          cat |-> [tables |-> (table_name :> [columns |-> schema, primary_key |-> pk])
                               @@ cat.tables,
                   statistics |-> (table_name :> TableStatistics) @@ cat.statistics,
                   indexes |-> SetIndex(cat.indexes,
                                        IndexMetadata("pkey", table_name, pk, TRUE))]]

\* a create_index that registers the index before it looks for the key
CreateIndex_RegisterFirst(cat, meta, schema) ==
    IF meta.table_name \notin DOMAIN cat.tables THEN [raised |-> "ValueError", cat |-> cat]
    ELSE IF \/ \E c \in 1..Len(meta.columns) : get_column(schema, meta.columns[c]) = {}
            \/ HasIndexKey(cat.indexes, KeyOfMeta(meta))
    THEN [raised |-> "ValueError", cat |-> [cat EXCEPT !.indexes = SetIndex(cat.indexes, meta)]]
    ELSE [raised |-> "", cat |-> [cat EXCEPT !.indexes = SetIndex(cat.indexes, meta)]]

\* [raised, cat]
Catalog_create_index(cat, meta, schema) ==
    IF \/ meta.table_name \notin DOMAIN cat.tables
       \/ \E c \in 1..Len(meta.columns) : get_column(schema, meta.columns[c]) = {}
       \/ HasIndexKey(cat.indexes, KeyOfMeta(meta))
    THEN [raised |-> "ValueError", cat |-> cat]
    ELSE [raised |-> "", cat |-> [cat EXCEPT !.indexes = SetIndex(cat.indexes, meta)]]

\* a drop_table that leaves the indexes of the table registered
Catalog_drop_table_KeepIndexes(cat, table_name) ==
    [tables |-> [n \in DOMAIN cat.tables \ {table_name} |-> cat.tables[n]],
     statistics |-> [n \in DOMAIN cat.statistics \ {table_name} |-> cat.statistics[n]],
     indexes |-> cat.indexes]

\* the catalog without the table, its statistics and its indexes; the
\* caller checks that the table exists
Catalog_drop_table(cat, table_name) ==
    [tables |-> [n \in DOMAIN cat.tables \ {table_name} |-> cat.tables[n]],
     statistics |-> [n \in DOMAIN cat.statistics \ {table_name} |-> cat.statistics[n]],
     indexes |-> SelectSeq(cat.indexes, LAMBDA m : m.table_name # table_name)]

get_indexes_for_table(cat, table_name) ==
    SelectSeq(cat.indexes, LAMBDA m : m.table_name = table_name)

\* Catalog.get_statistics: a table without an entry gets one, in memory only
Catalog_get_statistics(cat, table_name) ==
    IF table_name \in DOMAIN cat.statistics THEN cat
    ELSE [cat EXCEPT !.statistics = (table_name :> TableStatistics) @@ cat.statistics]

\* Catalog.update_statistics before its save()
Catalog_update_statistics(cat, table_name, stats) ==
    [cat EXCEPT !.statistics = (table_name :> stats) @@ cat.statistics]

(***************************************************************************)
(* QueryExecutor.  st is the record of everything a statement works on:    *)
(* the executor's catalog, buffer_pool, heap_files and indexes, and the    *)
(* files catalog_file, heap_file and index_files.  The model has the one   *)
(* table T; an index and its file are named by the index name.  Every      *)
(* execute_* operator returns [st, raised, result]: raised names the       *)
(* exception that left execute(), "" if none did.                          *)
(***************************************************************************)
T == "t"

\* catalog.get_table(T): the columns and the primary key of the table
SchemaOf(st) == st.catalog.tables[T].columns
PrimaryKeyOf(st) == st.catalog.tables[T].primary_key

HeapOf(st) == [h |-> st.heap_files, pool |-> st.buffer_pool, file |-> st.heap_file]

WithHeap(st, hs) ==
    [st EXCEPT !.heap_files = hs.h, !.buffer_pool = hs.pool, !.heap_file = hs.file]

IxOf(st, name) == Ix(st.indexes[name], st.index_files[name])

WithIx(st, name, ix) ==
    [st EXCEPT !.indexes[name] = HandleOf(ix), !.index_files[name] = ix.file]

Raise(st, exception) == [st |-> st, raised |-> exception, result |-> None]
Return(st, result) == [st |-> st, raised |-> "", result |-> result]

_get_heap_file(st) ==
    IF st.heap_files # None THEN Return(st, None)
    ELSE IF T \notin DOMAIN st.catalog.tables \/ st.heap_file = None
         THEN Raise(st, "ValueError")
         ELSE LET o == HeapFile_open(st.heap_file)
              IN  IF o.raised # "" THEN Raise(st, o.raised)
                  ELSE Return([st EXCEPT !.heap_files = o.h], None)

_get_index(st, name) ==
    IF name \in DOMAIN st.indexes THEN Return(st, None)
    ELSE IF name \notin DOMAIN st.index_files THEN Raise(st, "ValueError")
         ELSE Return([st EXCEPT !.indexes =
                         (name :> HandleOf(BTreeIndex_open(st.index_files[name])))
                         @@ st.indexes], None)

_get_primary_key_index(st) ==
    IF "pkey" \in DOMAIN st.indexes THEN Return(st, None)
    ELSE IF T \notin DOMAIN st.catalog.tables \/ "pkey" \notin DOMAIN st.index_files
         THEN Raise(st, "ValueError")
         ELSE Return([st EXCEPT !.indexes =
                         ("pkey" :> HandleOf(BTreeIndex_open(st.index_files["pkey"])))
                         @@ st.indexes], None)

_extract_key(values, schema, key_columns) ==
    IF Len(key_columns) = 1
    THEN values[get_column_index(schema, key_columns[1])]
    ELSE TupleV([c \in 1..Len(key_columns) |->
                    values[get_column_index(schema, key_columns[c])]])

\* a NOT NULL loop that never raises
NotNullViolated_Never(values, schema) ==
    \E c \in 1..Len(schema) : FALSE

NotNullViolated(values, schema) ==
    \E c \in 1..Len(schema) : ~schema[c].nullable /\ values[c].k = "null"

\* a WHERE clause is NoWhere or the comparison col = val
NoWhere == [col |-> "", val |-> NullV]

(* The comparison operators of _evaluate_expression on two operand values:  *)
(* = and != are Python's == and != (None == None is True), the ordering     *)
(* operators are False when an operand is None.  The operands of an         *)
(* ordering operator are of one type.                                       *)
Compare(op, left_val, right_val) ==
    IF op = "=" THEN left_val = right_val
    ELSE IF op = "!=" THEN left_val # right_val
    ELSE IF left_val = NullV \/ right_val = NullV THEN FALSE
    ELSE IF op = "<" THEN KeyLess(left_val, right_val)
    ELSE IF op = ">" THEN KeyLess(right_val, left_val)
    ELSE IF op = "<=" THEN ~KeyLess(right_val, left_val)
    ELSE ~KeyLess(left_val, right_val)

_evaluate_expression(where, values, schema) ==
    Compare("=", values[get_column_index(schema, where.col)], where.val)

(* Expression trees of the parser: ColumnRef, Literal, BinaryOp and UnaryOp  *)
(* nodes, all with the fields [type, op, args, column_name, value].          *)
ColumnRef(column_name) ==
    [type |-> "ColumnRef", op |-> "", args |-> <<>>, column_name |-> column_name,
     value |-> NullV]
Literal(value) ==
    [type |-> "Literal", op |-> "", args |-> <<>>, column_name |-> "", value |-> value]
BinaryOp(op, left, right) ==
    [type |-> "BinaryOp", op |-> op, args |-> <<left, right>>, column_name |-> "",
     value |-> NullV]
UnaryOp(op, operand) ==
    [type |-> "UnaryOp", op |-> op, args |-> <<operand>>, column_name |-> "", value |-> NullV]

\* the where of a statement without WHERE
NoExpression ==
    [type |-> "None", op |-> "", args |-> <<>>, column_name |-> "", value |-> NullV]
\* the limit and the offset of a statement without LIMIT, without OFFSET
NoNumber == -1

ComparisonOps == {"=", "!=", "<", ">", "<=", ">="}

\* bool(value) of Python
Truthy(value) ==
    IF value.k = "null" THEN FALSE
    ELSE IF value.k = "text" THEN value.s # <<>>
    ELSE value.i # 0

(* _evaluate_expression and _eval_operand on an expression tree: the value   *)
(* of the node.  LIKE is not evaluated here.                                 *)
RECURSIVE EvaluateExpression(_, _, _)
EvaluateExpression(expr, values, schema) ==
    IF expr.type = "BinaryOp"
    THEN IF expr.op \in ComparisonOps
         THEN BoolV(Compare(expr.op, EvaluateExpression(expr.args[1], values, schema),
                            EvaluateExpression(expr.args[2], values, schema)))
         ELSE IF expr.op = "AND"
         THEN IF Truthy(EvaluateExpression(expr.args[1], values, schema))
              THEN EvaluateExpression(expr.args[2], values, schema)
              ELSE EvaluateExpression(expr.args[1], values, schema)
         ELSE IF expr.op = "OR"
         THEN IF Truthy(EvaluateExpression(expr.args[1], values, schema))
              THEN EvaluateExpression(expr.args[1], values, schema)
              ELSE EvaluateExpression(expr.args[2], values, schema)
         ELSE BoolV(TRUE)
    ELSE IF expr.type = "UnaryOp"
    THEN IF expr.op = "NOT"
         THEN BoolV(~Truthy(EvaluateExpression(expr.args[1], values, schema)))
         ELSE BoolV(TRUE)
    ELSE IF expr.type = "Literal" THEN expr.value
    ELSE values[get_column_index(schema, expr.column_name)]

\* _can_use_index(expr, indexed_columns)
_can_use_index(expr, indexed_columns) ==
    /\ expr.type = "BinaryOp"
    /\ expr.op \in {"=", "<", ">", "<=", ">="}
    /\ expr.args[1].type = "ColumnRef"
    /\ expr.args[1].column_name \in indexed_columns

\* _choose_scan_method on the indexes metas of the table
ChooseScanMethod(metas, where_expr) ==
    IF where_expr = NoExpression THEN "sequential"
    ELSE IF _can_use_index(where_expr,
                           UNION {{metas[j].columns[c] : c \in 1..Len(metas[j].columns)} :
                                     j \in 1..Len(metas)})
    THEN "index" ELSE "sequential"

(* The sort key of _apply_order_by for one value: None becomes inf for ASC   *)
(* and -inf for DESC, and for DESC a number is negated, so None is inf in    *)
(* both directions; a str is kept as it is in both directions.  inf is 1    *)
(* for the float inf.                                                        *)
SortKeyOf(value, direction) ==
    IF value.k = "null" THEN [k |-> "num", inf |-> 1, i |-> 0, s |-> <<>>]
    ELSE IF value.k = "text" THEN [k |-> "text", inf |-> 0, i |-> 0, s |-> value.s]
    ELSE [k |-> "num", inf |-> 0, i |-> IF direction = "ASC" THEN value.i ELSE 0 - value.i,
          s |-> <<>>]

sort_key(values, schema, order_by) ==
    [c \in 1..Len(order_by) |->
        SortKeyOf(values[get_column_index(schema, order_by[c].column)], order_by[c].direction)]

\* the first position where two keys differ, 0 when they are equal
FirstDifference(k1, k2) ==
    IF k1 = k2 THEN 0 ELSE CHOOSE c \in 1..Len(k1) :
                               k1[c] # k2[c] /\ \A d \in 1..(c - 1) : k1[d] = k2[d]

\* Python's < on two key tuples whose first difference is in one type
SortKeyLess(k1, k2) ==
    /\ k1 # k2
    /\ IF k1[FirstDifference(k1, k2)].k = "text"
       THEN SeqLess(k1[FirstDifference(k1, k2)].s, k2[FirstDifference(k1, k2)].s)
       ELSE \/ k1[FirstDifference(k1, k2)].inf < k2[FirstDifference(k1, k2)].inf
            \/ /\ k1[FirstDifference(k1, k2)].inf = k2[FirstDifference(k1, k2)].inf
               /\ k1[FirstDifference(k1, k2)].i < k2[FirstDifference(k1, k2)].i

\* < of a number and a str: TypeError
SortKeyTypeError(k1, k2) ==
    k1 # k2 /\ k1[FirstDifference(k1, k2)].k # k2[FirstDifference(k1, k2)].k

\* sorted(): stable, a tuple goes behind the tuples whose key is not greater
SortedInsert(sorted, values, schema, order_by) ==
    ListInsert(sorted,
               Cardinality({j \in 1..Len(sorted) :
                               ~SortKeyLess(sort_key(values, schema, order_by),
                                            sort_key(sorted[j], schema, order_by))}),
               values)

RECURSIVE Sorted(_, _, _)
Sorted(tuples, schema, order_by) ==
    IF tuples = <<>> THEN <<>>
    ELSE SortedInsert(Sorted(SubSeq(tuples, 1, Len(tuples) - 1), schema, order_by),
                      tuples[Len(tuples)], schema, order_by)

(* _apply_order_by on the value lists of the tuples; order_by is a sequence  *)
(* of [column, direction].  sorted() raises TypeError when it compares two   *)
(* keys that differ first in a number and a str, which it does when the list *)
(* holds two such keys.                                                      *)
_apply_order_by(tuples, schema, order_by) ==
    IF \E i, j \in 1..Len(tuples) :
          SortKeyTypeError(sort_key(tuples[i], schema, order_by),
                           sort_key(tuples[j], schema, order_by))
    THEN [raised |-> "TypeError", rows |-> <<>>]
    ELSE [raised |-> "", rows |-> Sorted(tuples, schema, order_by)]

\* filtered[offset:] and filtered[:limit] for numbers that are not negative
SliceFrom(rows, offset) == SubSeq(rows, offset + 1, Len(rows))
SliceTo(rows, limit) == SubSeq(rows, 1, Min2(limit, Len(rows)))

(* execute_select behind the scan, for SELECT *: filter the tuples with      *)
(* WHERE, apply ORDER BY, then OFFSET and LIMIT ("if cmd.offset",            *)
(* "if cmd.limit": None and 0 leave the list as it is).  cmd is              *)
(* [where, order_by, limit, offset]; where is NoExpression, limit and offset *)
(* are NoNumber and order_by is <<>> when the statement has none.            *)
select_Limit(rows, cmd) ==
    IF cmd.limit # NoNumber /\ cmd.limit # 0 THEN SliceTo(rows, cmd.limit) ELSE rows

select_Offset(rows, cmd) ==
    select_Limit(IF cmd.offset # NoNumber /\ cmd.offset # 0 THEN SliceFrom(rows, cmd.offset)
                 ELSE rows, cmd)

select_OrderBy(filtered, schema, cmd) ==
    IF cmd.order_by = <<>> THEN [raised |-> "", rows |-> select_Offset(filtered, cmd)]
    ELSE IF _apply_order_by(filtered, schema, cmd.order_by).raised # ""
    THEN _apply_order_by(filtered, schema, cmd.order_by)
    ELSE [raised |-> "",
          rows |-> select_Offset(_apply_order_by(filtered, schema, cmd.order_by).rows, cmd)]

select_Rows(tuples, schema, cmd) ==
    select_OrderBy(SelectSeq(tuples, LAMBDA values :
                                 \/ cmd.where = NoExpression
                                 \/ Truthy(EvaluateExpression(cmd.where, values, schema))),
                   schema, cmd)

Matching(rows, where, schema) ==
    SelectSeq(rows, LAMBDA r : where = NoWhere \/ _evaluate_expression(where, r.values, schema))

update_statistics(st, stats) ==
    LET cat == [st.catalog EXCEPT !.statistics = (T :> stats) @@ st.catalog.statistics]
    IN  [st EXCEPT !.catalog = cat, !.catalog_file = Catalog_save(cat)]

get_statistics(st) ==
    IF T \in DOMAIN st.catalog.statistics THEN st.catalog.statistics[T]
    ELSE TableStatistics

create_table_Registered(st, c) ==
    IF c.raised # "" THEN Raise(st, c.raised)
    ELSE Return([st EXCEPT !.catalog = c.cat,
                           !.catalog_file = Catalog_save(c.cat),
                           !.heap_file = HeapFile_create,
                           !.index_files = ("pkey" :> BTreeIndex_create(TRUE).file)
                                           @@ st.index_files],
                None)

execute_create_table(st, columns, pk) ==
    create_table_Registered(st, Catalog_create_table(st.catalog, T, columns, pk))

\* the names of the indexes of the table
IndexNames(cat) ==
    {get_indexes_for_table(cat, T)[j].index_name :
        j \in 1..Len(get_indexes_for_table(cat, T))}

\* the heap file and the index files are removed, the catalog entries
\* dropped and the heap handle forgotten; self.indexes and the buffer pool
\* are left as they are
execute_drop_table(st) ==
    IF T \notin DOMAIN st.catalog.tables THEN Raise(st, "ValueError")
    ELSE Return([st EXCEPT
                    !.heap_file = None,
                    !.index_files = [n \in DOMAIN st.index_files \ IndexNames(st.catalog)
                                        |-> st.index_files[n]],
                    !.catalog = Catalog_drop_table(st.catalog, T),
                    !.catalog_file = Catalog_save(Catalog_drop_table(st.catalog, T)),
                    !.heap_files = None],
                None)

(***************************************************************************)
(* A statement is a chain of steps, each of which may raise.  A step that  *)
(* follows another is an operator of the result of the one before: r, g,   *)
(* p, ins, sc, ... are those results, records with the fields st and       *)
(* raised (the heap and index operators: hs or ix and raised).             *)
(***************************************************************************)

\* the rows of the heap inserted into a new index: [ix, raised]
RECURSIVE Populate(_, _, _, _)
PopulateNext(r, rows, schema, columns) ==
    IF r.raised THEN [ix |-> r.ix, raised |-> "ValueError"]
    ELSE Populate(r.ix, Tail(rows), schema, columns)

Populate(ix, rows, schema, columns) ==
    IF rows = <<>> THEN [ix |-> ix, raised |-> ""]
    ELSE PopulateNext(BTreeIndex_insert(ix, _extract_key(Head(rows).values, schema, columns),
                                        Head(rows).ctid),
                      rows, schema, columns)

create_index_Populated(st, pop, index_name) ==
    [st |-> [st EXCEPT !.index_files[index_name] = pop.ix.file],
     raised |-> pop.raised, result |-> None]

create_index_Scanned(st, sc, index_name, columns, unique) ==
    create_index_Populated(WithHeap(st, sc.hs),
                           Populate(BTreeIndex_create(unique), sc.rows, SchemaOf(st), columns),
                           index_name)

create_index_Populate(g, index_name, columns, unique) ==
    IF g.raised # "" THEN g
    ELSE create_index_Scanned(g.st, scan_all(HeapOf(g.st), SchemaOf(g.st)),
                              index_name, columns, unique)

create_index_Registered(st, c, index_name, columns, unique) ==
    IF c.raised # "" THEN Raise(st, c.raised)
    ELSE create_index_Populate(
            _get_heap_file([st EXCEPT !.catalog = c.cat,
                                      !.catalog_file = Catalog_save(c.cat),
                                      !.index_files =
                                          (index_name :> BTreeIndex_create(unique).file)
                                          @@ st.index_files]),
            index_name, columns, unique)

execute_create_index(st, index_name, columns, unique) ==
    IF T \notin DOMAIN st.catalog.tables THEN Raise(st, "ValueError")
    ELSE IF \E c \in 1..Len(columns) : get_column(SchemaOf(st), columns[c]) = {}
    THEN Raise(st, "ValueError")
    ELSE create_index_Registered(
            st,
            Catalog_create_index(st.catalog,
                                 IndexMetadata(index_name, T, columns, unique), SchemaOf(st)),
            index_name, columns, unique)

\* the loop "for index_meta in ...: index.insert(key, ctid)" of execute_insert
\* with its except clause
RECURSIVE InsertIndexes(_, _, _, _)
InsertIndexes_Inserted(st, r, metas, values, ctid) ==
    IF r.raised
    THEN Raise(WithHeap(st, delete_tuple(HeapOf(st), ctid).hs), "ValueError")
    ELSE InsertIndexes(WithIx(st, Head(metas).index_name, r.ix), Tail(metas), values, ctid)

InsertIndexes_Insert(g, metas, values, ctid) ==
    IF g.raised # "" THEN g
    ELSE InsertIndexes_Inserted(
            g.st,
            BTreeIndex_insert(IxOf(g.st, Head(metas).index_name),
                              _extract_key(values, SchemaOf(g.st), Head(metas).columns), ctid),
            metas, values, ctid)

InsertIndexes(st, metas, values, ctid) ==
    IF metas = <<>> THEN Return(st, None)
    ELSE InsertIndexes_Insert(_get_index(st, Head(metas).index_name), metas, values, ctid)

insert_UpdateStatistics(x) ==
    IF x.raised # "" THEN x
    ELSE Return(update_statistics(x.st,
                    [get_statistics(x.st) EXCEPT !.row_count = @ + 1,
                                                 !.modification_count = @ + 1]),
                None)

insert_UpdateIndexes(st, ins, values) ==
    IF ins.raised # "" THEN Raise(WithHeap(st, ins.hs), ins.raised)
    ELSE insert_UpdateStatistics(
            InsertIndexes(WithHeap(st, ins.hs), get_indexes_for_table(st.catalog, T),
                          values, ins.ctid))

insert_IntoHeap(g, values) ==
    IF g.raised # "" THEN g
    ELSE insert_UpdateIndexes(g.st,
                              insert_tuple(HeapOf(g.st), Tuple_serialize(values, SchemaOf(g.st))),
                              values)

insert_CheckPrimaryKey(p, values) ==
    IF p.raised # "" THEN p
    ELSE IF BTreeIndex_search(IxOf(p.st, "pkey"),
                              _extract_key(values, SchemaOf(p.st), PrimaryKeyOf(p.st))) # None
    THEN Raise(p.st, "ValueError")
    ELSE IF Tuple_raises(values, SchemaOf(p.st)) THEN Raise(p.st, "ValueError")
    ELSE insert_IntoHeap(_get_heap_file(p.st), values)

execute_insert(st, values) ==
    IF T \notin DOMAIN st.catalog.tables THEN Raise(st, "ValueError")
    ELSE IF Len(values) # Len(SchemaOf(st)) THEN Raise(st, "ValueError")
    ELSE IF NotNullViolated(values, SchemaOf(st)) THEN Raise(st, "ValueError")
    ELSE insert_CheckPrimaryKey(_get_primary_key_index(st), values)

(* INSERT INTO t (columns) VALUES (values): the value of each schema column  *)
(* is the one at the first position of its name in the list, a column not   *)
(* listed is NULL when it is nullable and raises otherwise.                 *)
Position(columns, name) == CHOOSE j \in 1..Len(columns) : columns[j] = name /\
                               \A i \in 1..(j - 1) : columns[i] # name

Listed(columns, name) == \E j \in 1..Len(columns) : columns[j] = name

MappedValues(schema, columns, values) ==
    [c \in 1..Len(schema) |->
        IF Listed(columns, schema[c].name) THEN values[Position(columns, schema[c].name)]
        ELSE NullV]

\* execute_insert of a command with a column list (columns = None: without one)
execute_insert_columns(st, columns, values) ==
    IF T \notin DOMAIN st.catalog.tables THEN Raise(st, "ValueError")
    ELSE IF columns = None THEN execute_insert(st, values)
    ELSE IF Len(values) # Len(columns) THEN Raise(st, "ValueError")
    ELSE IF \E c \in 1..Len(SchemaOf(st)) :
                ~Listed(columns, SchemaOf(st)[c].name) /\ ~SchemaOf(st)[c].nullable
    THEN Raise(st, "ValueError")
    ELSE execute_insert(st, MappedValues(SchemaOf(st), columns, values))

\* the loop "index.delete(old_key)" over the indexes of the table
RECURSIVE DeleteIndexes(_, _, _)
DeleteIndexes_Delete(g, metas, values) ==
    IF g.raised # "" THEN g
    ELSE DeleteIndexes(
            WithIx(g.st, Head(metas).index_name,
                   BTreeIndex_delete(IxOf(g.st, Head(metas).index_name),
                                     _extract_key(values, SchemaOf(g.st), Head(metas).columns))),
            Tail(metas), values)

DeleteIndexes(st, metas, values) ==
    IF metas = <<>> THEN Return(st, None)
    ELSE DeleteIndexes_Delete(_get_index(st, Head(metas).index_name), metas, values)

\* the loop "index.insert(new_key, new_ctid)" of execute_update, which has no
\* except clause
RECURSIVE UpdateIndexes(_, _, _, _)
UpdateIndexes_Inserted(st, r, metas, values, ctid) ==
    IF r.raised THEN Raise(st, "ValueError")
    ELSE UpdateIndexes(WithIx(st, Head(metas).index_name, r.ix), Tail(metas), values, ctid)

UpdateIndexes_Insert(g, metas, values, ctid) ==
    IF g.raised # "" THEN g
    ELSE UpdateIndexes_Inserted(
            g.st,
            BTreeIndex_insert(IxOf(g.st, Head(metas).index_name),
                              _extract_key(values, SchemaOf(g.st), Head(metas).columns), ctid),
            metas, values, ctid)

UpdateIndexes(st, metas, values, ctid) ==
    IF metas = <<>> THEN Return(st, None)
    ELSE UpdateIndexes_Insert(_get_index(st, Head(metas).index_name), metas, values, ctid)

\* one pass of the loop "for old_tuple, old_ctid in tuples_to_update"
UpdateRow_Inserted(st, ins, new_values) ==
    IF ins.raised # "" THEN Raise(WithHeap(st, ins.hs), ins.raised)
    ELSE UpdateIndexes(WithHeap(st, ins.hs), get_indexes_for_table(st.catalog, T),
                       new_values, ins.ctid)

UpdateRow_Insert(di, new_values) ==
    IF di.raised # "" THEN di
    ELSE IF Tuple_raises(new_values, SchemaOf(di.st)) THEN Raise(di.st, "ValueError")
    ELSE UpdateRow_Inserted(di.st,
                            insert_tuple(HeapOf(di.st), Tuple_serialize(new_values, SchemaOf(di.st))),
                            new_values)

UpdateRow_Deleted(st, d, old, new_values) ==
    IF d.raised # "" THEN Raise(WithHeap(st, d.hs), d.raised)
    ELSE UpdateRow_Insert(
            DeleteIndexes(WithHeap(st, d.hs), get_indexes_for_table(st.catalog, T),
                          old.values),
            new_values)

UpdateRow_CheckPrimaryKey(p, old, new_values, old_pk, new_pk) ==
    IF p.raised # "" THEN p
    ELSE IF old_pk # new_pk /\ BTreeIndex_search(IxOf(p.st, "pkey"), new_pk) # None
    THEN Raise(p.st, "ValueError")
    ELSE UpdateRow_Deleted(p.st, delete_tuple(HeapOf(p.st), old.ctid), old, new_values)

UpdateRow_Validate(st, old, new_values, old_pk, new_pk) ==
    IF NotNullViolated(new_values, SchemaOf(st)) THEN Raise(st, "ValueError")
    ELSE UpdateRow_CheckPrimaryKey(
            IF old_pk # new_pk THEN _get_primary_key_index(st) ELSE Return(st, None),
            old, new_values, old_pk, new_pk)

\* new_values of the row old under the assignment
Assigned(old, assignment, schema) ==
    [old.values EXCEPT ![get_column_index(schema, assignment.col)] = assignment.val]

UpdateRow(st, old, assignment) ==
    UpdateRow_Validate(st, old, Assigned(old, assignment, SchemaOf(st)),
                       _extract_key(old.values, SchemaOf(st), PrimaryKeyOf(st)),
                       _extract_key(Assigned(old, assignment, SchemaOf(st)), SchemaOf(st),
                                    PrimaryKeyOf(st)))

\* an update loop that stops after the first matched row
UpdateRows_FirstOnly(st, rows, assignment) ==
    IF rows = <<>> THEN Return(st, None) ELSE UpdateRow(st, Head(rows), assignment)

RECURSIVE UpdateRows(_, _, _)
UpdateRows_Next(u, rows, assignment) ==
    IF u.raised # "" THEN u ELSE UpdateRows(u.st, Tail(rows), assignment)

UpdateRows(st, rows, assignment) ==
    IF rows = <<>> THEN Return(st, None)
    ELSE UpdateRows_Next(UpdateRow(st, Head(rows), assignment), rows, assignment)

update_UpdateStatistics(u, n) ==
    IF u.raised # "" THEN u
    ELSE Return(update_statistics(u.st,
                    [get_statistics(u.st) EXCEPT !.modification_count = @ + n]),
                n)

update_Scanned(st, sc, assignment, where) ==
    update_UpdateStatistics(
        UpdateRows(WithHeap(st, sc.hs), Matching(sc.rows, where, SchemaOf(st)), assignment),
        Len(Matching(sc.rows, where, SchemaOf(st))))

update_Scan(g, assignment, where) ==
    IF g.raised # "" THEN g
    ELSE update_Scanned(g.st, scan_all(HeapOf(g.st), SchemaOf(g.st)), assignment, where)

execute_update(st, assignment, where) ==
    IF T \notin DOMAIN st.catalog.tables THEN Raise(st, "ValueError")
    ELSE update_Scan(_get_heap_file(st), assignment, where)

RECURSIVE DeleteRows(_, _)
DeleteRows_Next(di, rows) ==
    IF di.raised # "" THEN di ELSE DeleteRows(di.st, Tail(rows))

DeleteRows_Deleted(st, d, rows) ==
    IF d.raised # "" THEN Raise(WithHeap(st, d.hs), d.raised)
    ELSE DeleteRows_Next(
            DeleteIndexes(WithHeap(st, d.hs), get_indexes_for_table(st.catalog, T),
                          Head(rows).values),
            rows)

DeleteRows(st, rows) ==
    IF rows = <<>> THEN Return(st, None)
    ELSE DeleteRows_Deleted(st, delete_tuple(HeapOf(st), Head(rows).ctid), rows)

delete_UpdateStatistics(d, n) ==
    IF d.raised # "" THEN d
    ELSE Return(update_statistics(d.st,
                    [get_statistics(d.st) EXCEPT !.row_count = @ - n,
                                                 !.dead_tuple_count = @ + n,
                                                 !.modification_count = @ + n]),
                n)

delete_Scanned(st, sc, where) ==
    delete_UpdateStatistics(
        DeleteRows(WithHeap(st, sc.hs), Matching(sc.rows, where, SchemaOf(st))),
        Len(Matching(sc.rows, where, SchemaOf(st))))

delete_Scan(g, where) ==
    IF g.raised # "" THEN g
    ELSE delete_Scanned(g.st, scan_all(HeapOf(g.st), SchemaOf(g.st)), where)

execute_delete(st, where) ==
    IF T \notin DOMAIN st.catalog.tables THEN Raise(st, "ValueError")
    ELSE delete_Scan(_get_heap_file(st), where)

_choose_scan_method(st, where) ==
    ChooseScanMethod(get_indexes_for_table(st.catalog, T),
                     IF where = NoWhere THEN NoExpression
                     ELSE BinaryOp("=", ColumnRef(where.col), Literal(where.val)))

\* the first index of the table that has the column of the WHERE clause
IndexFor(metas, where) ==
    metas[CHOOSE j \in 1..Len(metas) :
            /\ \E c \in 1..Len(metas[j].columns) : metas[j].columns[c] = where.col
            /\ \A j2 \in 1..(j - 1) :
                  \A c \in 1..Len(metas[j2].columns) : metas[j2].columns[c] # where.col]

\* the tuples the generator yields: result is a sequence of [values, ctid]
_index_scan_Read(st, rd, ctid) ==
    Return(WithHeap(st, rd.hs),
           IF rd.tuple = None THEN <<>> ELSE <<[values |-> rd.tuple, ctid |-> ctid]>>)

_index_scan_Heap(h, ctid) ==
    IF h.raised # "" THEN h
    ELSE _index_scan_Read(h.st, read_tuple(HeapOf(h.st), ctid, SchemaOf(h.st)), ctid)

_index_scan_Found(st, ctid) ==
    IF ctid = None THEN Return(st, <<>>)
    ELSE _index_scan_Heap(_get_heap_file(st), ctid)

_index_scan_Search(g, meta, where) ==
    IF g.raised # "" THEN g
    ELSE _index_scan_Found(g.st, BTreeIndex_search(IxOf(g.st, meta.index_name), where.val))

_index_scan(st, where) ==
    _index_scan_Search(
        _get_index(st, IndexFor(get_indexes_for_table(st.catalog, T), where).index_name),
        IndexFor(get_indexes_for_table(st.catalog, T), where), where)

select_Scanned(st, sc) == Return(WithHeap(st, sc.hs), sc.rows)

select_Scan(g) ==
    IF g.raised # "" THEN g
    ELSE select_Scanned(g.st, scan_all(HeapOf(g.st), SchemaOf(g.st)))

select_Filter(t, where) ==
    IF t.raised # "" THEN t
    ELSE Return(t.st, [j \in 1..Len(Matching(t.result, where, SchemaOf(t.st))) |->
                          Matching(t.result, where, SchemaOf(t.st))[j].values])

\* SELECT * FROM t [WHERE col = val]: result is the sequence of rows
execute_select(st, where) ==
    IF T \notin DOMAIN st.catalog.tables THEN Raise(st, "ValueError")
    ELSE select_Filter(IF _choose_scan_method(st, where) = "index"
                       THEN _index_scan(st, where)
                       ELSE select_Scan(_get_heap_file(st)),
                       where)

\* EXPLAIN SELECT * FROM t [WHERE col = val]: no look-up of the table; the
\* plan names the scan method and the counts of catalog.get_statistics, which
\* leaves an entry in the catalog of the executor when the table had none
execute_explain(st, where) ==
    Return([st EXCEPT !.catalog = Catalog_get_statistics(st.catalog, T)],
           [scan_method |-> IF where = NoWhere THEN "sequential"
                            ELSE _choose_scan_method(st, where),
            row_count |-> Catalog_get_statistics(st.catalog, T).statistics[T].row_count,
            page_count |-> Catalog_get_statistics(st.catalog, T).statistics[T].page_count])

vacuum_Heap(g) ==
    IF g.raised # "" THEN g
    ELSE Return(WithHeap(g.st, HeapFile_vacuum(HeapOf(g.st))), None)

\* VACUUM t: heap.vacuum() on the heap file of the table, and nothing on the
\* indexes
execute_vacuum(st) == vacuum_Heap(_get_heap_file(st))

\* execute(): the command classes that have a branch in the isinstance chain;
\* BEGIN, COMMIT and ROLLBACK parse to BeginCommand, CommitCommand and
\* RollbackCommand, which have none
Dispatched ==
    {"CreateTableCommand", "CreateIndexCommand", "DropTableCommand", "InsertCommand",
     "SelectCommand", "UpdateCommand", "DeleteCommand", "ExplainCommand",
     "AnalyzeCommand", "VacuumCommand"}

\* handled is the result of the branch of the command's class
execute(st, command, handled) ==
    IF command.type \in Dispatched THEN handled ELSE Raise(st, "ValueError")

\* shutdown() of the running executor
shutdown(st) ==
    LET f == flush_all(st.buffer_pool, st.heap_file)
    IN  [st EXCEPT !.buffer_pool = f.pool, !.heap_file = f.file,
                   !.catalog_file = Catalog_save(st.catalog)]

\* QueryExecutor(data_dir) on the files st holds
QueryExecutor(st) ==
    [st EXCEPT !.catalog = Catalog_load(st.catalog_file).cat,
               !.buffer_pool = BufferPool(BUFFER_POOL_SIZE),
               !.heap_files = None,
               !.indexes = EmptyFn]

(***************************************************************************)
(* SpecHeap: one HeapFile on a BufferPool of capacity 1..MaxPool, used     *)
(* directly as src/tests/test_storage.py does.  ref is the set of          *)
(* [ctid, values] inserted and not deleted.                                *)
(***************************************************************************)
TheHeap == [h |-> heap_files, pool |-> buffer_pool, file |-> heap_file]

SetHeap(hs) ==
    /\ heap_files' = hs.h
    /\ buffer_pool' = hs.pool
    /\ heap_file' = hs.file

InitHeap ==
    /\ \E size \in 1..MaxPool : buffer_pool = BufferPool(size)
    /\ heap_file = HeapFile_create
    /\ heap_files = [page_count |-> 0, free_space_map |-> <<>>]
    /\ ref = {}
    /\ catalog = None /\ catalog_file = None
    /\ index_files = EmptyFn /\ indexes = EmptyFn
    /\ last = [op |-> "create", raised |-> "", result |-> None]
    /\ nops = 0

HeapInsert(values) ==
    /\ nops < MaxRecords
    /\ LET r == insert_tuple(TheHeap, Tuple_serialize(values, Schema))
       IN  /\ SetHeap(r.hs)
           /\ ref' = IF r.raised = "" THEN ref \cup {[ctid |-> r.ctid, values |-> values]}
                     ELSE ref
           /\ last' = [op |-> "insert_tuple", raised |-> r.raised, result |-> r.ctid]
    /\ nops' = nops + 1
    /\ UNCHANGED <<catalog, catalog_file, index_files, indexes>>

HeapDelete(ctid) ==
    /\ LET r == delete_tuple(TheHeap, ctid)
       IN  /\ SetHeap(r.hs)
           /\ ref' = IF r.raised = "" THEN {x \in ref : x.ctid # ctid} ELSE ref
           /\ last' = [op |-> "delete_tuple", raised |-> r.raised, result |-> None]
    /\ UNCHANGED <<catalog, catalog_file, index_files, indexes, nops>>

HeapRead(ctid) ==
    /\ LET r == read_tuple(TheHeap, ctid, Schema)
       IN  /\ SetHeap(r.hs)
           /\ last' = [op |-> "read_tuple", raised |-> "", result |-> r.tuple]
    /\ UNCHANGED <<catalog, catalog_file, index_files, indexes, ref, nops>>

\* list(scan_all()): result is the sequence of the values of the rows
HeapScan ==
    /\ LET r == scan_all(TheHeap, Schema)
       IN  /\ SetHeap(r.hs)
           /\ last' = [op |-> "scan_all", raised |-> "",
                       result |-> [j \in 1..Len(r.rows) |-> r.rows[j].values]]
    /\ UNCHANGED <<catalog, catalog_file, index_files, indexes, ref, nops>>

HeapVacuum ==
    /\ SetHeap(HeapFile_vacuum(TheHeap))
    /\ last' = [last EXCEPT !.op = "vacuum", !.raised = ""]
    /\ UNCHANGED <<catalog, catalog_file, index_files, indexes, ref, nops>>

NextHeap ==
    \/ \E values \in Rows : HeapInsert(values)
    \/ \E x \in ref : HeapDelete(x.ctid)
    \/ \E x \in ref : HeapRead(x.ctid)
    \/ HeapScan
    \/ HeapVacuum

SpecHeap == InitHeap /\ [][NextHeap]_vars

\* C4: read_tuple(ctid) returns the inserted values for every ctid that was
\* inserted and not deleted, also after its page was evicted and loaded again
\* (stated for the rows whose first serialized byte is not the tombstone
\* marker, which get_tuple reports as deleted on any page)
C4_ReadReturnsInserted ==
    \A x \in ref :
        ~IsTombstone(Tuple_serialize(x.values, Schema))
            => read_tuple(TheHeap, x.ctid, Schema).tuple = x.values

\* C16: a tuple that was inserted and not deleted, whatever the first byte of
\* its record, is not reported as deleted while its page object holds the
\* record: read_tuple returns its values and, when the pool is large enough
\* for the scan to evict nothing, scan_all yields it under its ctid
C16_LiveTupleNotReportedDeleted ==
    \A x \in ref :
        SlotsAt(_read_page(TheHeap, x.ctid[1]).page, x.ctid[2]) # {} =>
            /\ read_tuple(TheHeap, x.ctid, Schema).tuple = x.values
            /\ buffer_pool.size >= heap_files.page_count =>
                  \E j \in 1..Len(scan_all(TheHeap, Schema).rows) :
                      scan_all(TheHeap, Schema).rows[j] = [values |-> x.values, ctid |-> x.ctid]

\* no page object of the pool holds a record that starts with the tombstone
\* byte or counts a dead tuple, and no page of the file counts one
NoTombstone(hs) ==
    /\ \A j \in 1..Len(hs.pool.cache) :
          /\ hs.pool.cache[j].page.dead_tuple_count = 0
          /\ \A k \in 1..Len(hs.pool.cache[j].page.tuples) :
                ~IsTombstone(hs.pool.cache[j].page.tuples[k].data)
    /\ \A n \in 1..hs.file.page_count : hs.file.pages[n].dead_tuple_count = 0

\* the values of the rows a scan of the heap yields, in order
ScanValues(hs) ==
    [j \in 1..Len(scan_all(hs, Schema).rows) |-> scan_all(hs, Schema).rows[j].values]

\* C18: a vacuum that follows a scan leaves no tombstoned record and no dead
\* count on any page, a scan after it yields the tuples of the scan before
\* it in the same order, and the page count is the same (stated for heaps
\* whose live rows do not start with the tombstone byte, which no reader
\* tells from deleted rows)
C18_VacuumKeepsLiveTuples ==
    [][(/\ last.op = "scan_all" /\ last'.op = "vacuum"
        /\ \A x \in ref : ~IsTombstone(Tuple_serialize(x.values, Schema)))
           => /\ NoTombstone(TheHeap')
              /\ ScanValues(TheHeap') = last.result
              /\ heap_files'.page_count = heap_files.page_count
              /\ heap_file'.page_count = heap_file.page_count]_vars

\* what insert_tuple of values must do in the current state: the record of
\* size s goes to the first page of the free-space map with s bytes free, to
\* a new page when there is none; that page has s bytes less afterwards, and
\* no page has less than 0 bytes free
InsertPlacement(values) ==
    LET s == Len(Tuple_serialize(values, Schema))
        fit == {n \in 0..(heap_files.page_count - 1) :
                    heap_files.free_space_map[n + 1] >= s}
        target == IF fit = {} THEN heap_files.page_count
                  ELSE CHOOSE n \in fit : \A m \in fit : n <= m
        before == IF fit = {} THEN PAGE_SIZE - PAGE_HEADER_SIZE
                  ELSE heap_files.free_space_map[target + 1]
    IN  /\ last'.raised = ""
        /\ last'.result[1] = target
        /\ heap_files'.page_count = heap_files.page_count + (IF fit = {} THEN 1 ELSE 0)
        /\ heap_files'.free_space_map[target + 1] = before - s
        /\ \A n \in 1..heap_files'.page_count :
              /\ heap_files'.free_space_map[n] >= 0
              /\ n # target + 1 /\ n <= heap_files.page_count
                    => heap_files'.free_space_map[n] = heap_files.free_space_map[n]
        /\ \A j \in 1..Len(buffer_pool'.cache) :
              /\ buffer_pool'.cache[j].page.free_space >= 0
              /\ buffer_pool'.cache[j].key = target
                    => buffer_pool'.cache[j].page.free_space = before - s

\* C19: insert_tuple stores a tuple of size s on the first page of the
\* free-space map with at least s bytes free and makes a new page only when
\* there is none; a tuple as large as the free space of a page fills it, a
\* tuple one byte larger goes elsewhere, and no free space goes below 0
C19_InsertGoesToFirstPageWithSpace ==
    [][\A values \in Rows : HeapInsert(values) => InsertPlacement(values)]_vars

\* C19 witness: a 17-byte record left 7 bytes on page 0, an 8-byte record
\* went to page 1, and the 7-byte record just inserted filled page 0
C19_Witness ==
    /\ last.op = "insert_tuple" /\ last.raised = ""
    /\ last.result = <<0, PAGE_SIZE - 7>>
    /\ heap_files.free_space_map = <<0, PAGE_SIZE - PAGE_HEADER_SIZE - 8>>

(***************************************************************************)
(* Spec: one QueryExecutor session on an empty data directory.  Statements *)
(* arrive parsed: BEGIN, COMMIT and ROLLBACK as the parser's BeginCommand, *)
(* CommitCommand and RollbackCommand.  Restart is shutdown() followed by a *)
(* new QueryExecutor on the same directory.  last is the statement just    *)
(* executed with its outcome.  ref is what the client has issued of a      *)
(* transaction bracket: txn is "begun" from a BEGIN to the next COMMIT or  *)
(* ROLLBACK, and rows are the rows the table held at that BEGIN;           *)
(* restarted tells that the session is not the first on the directory,     *)
(* index_incomplete that a CREATE INDEX registered its index and raised    *)
(* while populating it.                                                    *)
(***************************************************************************)
ExecIds == {1, 2}
ExecRows == {<<IntV(id), TextV(a)>> : id \in ExecIds, a \in Texts}
Wheres ==
    {NoWhere, [col |-> "id", val |-> IntV(1)], [col |-> "a", val |-> TextV(Long1)]}
Assignments ==
    {[col |-> "id", val |-> IntV(3)], [col |-> "a", val |-> TextV(Long2)],
     [col |-> "a", val |-> NullV]}

TheState ==
    [catalog |-> catalog, catalog_file |-> catalog_file, heap_file |-> heap_file,
     index_files |-> index_files, buffer_pool |-> buffer_pool,
     heap_files |-> heap_files, indexes |-> indexes]

SetState(st) ==
    /\ catalog' = st.catalog
    /\ catalog_file' = st.catalog_file
    /\ heap_file' = st.heap_file
    /\ index_files' = st.index_files
    /\ buffer_pool' = st.buffer_pool
    /\ heap_files' = st.heap_files
    /\ indexes' = st.indexes

\* the executor QueryExecutor(data_dir) builds on a directory without files
EmptyDirectory ==
    [catalog |-> Catalog, catalog_file |-> None, heap_file |-> None,
     index_files |-> EmptyFn, buffer_pool |-> BufferPool(BUFFER_POOL_SIZE),
     heap_files |-> None, indexes |-> EmptyFn]

\* the heap as a scan reads it, through the open handle or a new one
HeapView(st) ==
    IF st.heap_files # None THEN HeapOf(st)
    ELSE [h |-> [page_count |-> st.heap_file.page_count, free_space_map |-> <<>>],
          pool |-> st.buffer_pool, file |-> st.heap_file]

\* the live tuples with their ctids, in scan order
LiveTuples(st) ==
    IF st.heap_file = None THEN <<>> ELSE scan_all(HeapView(st), SchemaOf(st)).rows

LiveRows(st) == {LiveTuples(st)[j].values : j \in 1..Len(LiveTuples(st))}

\* an index through its cached handle, or opened from its file
IndexView(st, name) ==
    IF name \in DOMAIN st.indexes THEN IxOf(st, name)
    ELSE BTreeIndex_open(st.index_files[name])

\* the (key, ctid) entries of the leaves under a node
RECURSIVE EntriesUnder(_, _)
EntriesUnder(ix, node) ==
    IF node.is_leaf
    THEN {[key |-> node.keys[j], ctid |-> node.values[j]] : j \in 1..Len(node.keys)}
    ELSE UNION {EntriesUnder(ix, _read_node(ix, node.values[j])) :
                    j \in 1..Len(node.values)}

Entries(st, name) == EntriesUnder(IndexView(st, name), IndexView(st, name).root)

IndexMetas(st) == get_indexes_for_table(st.catalog, T)

Init ==
    /\ catalog = EmptyDirectory.catalog
    /\ catalog_file = EmptyDirectory.catalog_file
    /\ heap_file = EmptyDirectory.heap_file
    /\ index_files = EmptyDirectory.index_files
    /\ buffer_pool = EmptyDirectory.buffer_pool
    /\ heap_files = EmptyDirectory.heap_files
    /\ indexes = EmptyDirectory.indexes
    /\ last = [op |-> "QueryExecutor", raised |-> "", result |-> None, info |-> None]
    /\ ref = [txn |-> "none", rows |-> {}, restarted |-> FALSE, index_incomplete |-> FALSE]
    /\ nops = 0


\* one statement through execute(): handled is the result of its handler, info
\* what last keeps of the command
Statement(command, handled, info) ==
    /\ SetState(execute(TheState, command, handled).st)
    /\ last' = [op |-> command.type,
                raised |-> execute(TheState, command, handled).raised,
                result |-> execute(TheState, command, handled).result,
                info |-> info]

ExecCreateTable ==
    /\ Statement([type |-> "CreateTableCommand"], execute_create_table(TheState, Schema, primary_key), None)
    /\ UNCHANGED <<ref, nops>>

ExecCreateIndex(unique) ==
    /\ Statement([type |-> "CreateIndexCommand"],
                 execute_create_index(TheState, "ia", <<"a">>, unique), None)
    /\ ref' = [ref EXCEPT !.index_incomplete =
                  @ \/ (last'.raised # "" /\ catalog' # catalog)]
    /\ UNCHANGED nops

\* Insert, Update and Delete statements are counted
ExecInsert(values) ==
    /\ nops < MaxWrites
    /\ Statement([type |-> "InsertCommand"], execute_insert(TheState, values), values)
    /\ nops' = nops + 1
    /\ UNCHANGED ref

ExecUpdate(assignment, where) ==
    /\ nops < MaxWrites
    /\ Statement([type |-> "UpdateCommand"],
                 execute_update(TheState, assignment, where), None)
    /\ nops' = nops + 1
    /\ UNCHANGED ref

ExecDelete(where) ==
    /\ nops < MaxWrites
    /\ Statement([type |-> "DeleteCommand"], execute_delete(TheState, where), None)
    /\ nops' = nops + 1
    /\ UNCHANGED ref

ExecSelect(where) ==
    /\ Statement([type |-> "SelectCommand"], execute_select(TheState, where), None)
    /\ UNCHANGED <<ref, nops>>

Restart ==
    /\ SetState(QueryExecutor(shutdown(TheState)))
    /\ last' = [op |-> "Restart", raised |-> "", result |-> None, info |-> None]
    /\ ref' = [ref EXCEPT !.restarted = TRUE]
    /\ UNCHANGED nops

Next ==
    \/ ExecCreateTable
    \/ \E unique \in BOOLEAN : ExecCreateIndex(unique)
    \/ \E values \in ExecRows : ExecInsert(values)
    \/ \E assignment \in Assignments, where \in Wheres : ExecUpdate(assignment, where)
    \/ \E where \in Wheres : ExecDelete(where)
    \/ \E where \in Wheres : ExecSelect(where)
    \/ Restart

Spec == Init /\ [][Next]_vars


\* the truncated key of a tuple in an index
KeyIn(values, meta) == truncate_key(_extract_key(values, Schema, meta.columns))

\* C1: between statements every live tuple is found in every index of the
\* table: search of its projected, truncated key returns its ctid.  For an
\* index that is not unique the statement checked is the weaker one that
\* search returns the ctid of a live tuple with the same key.  Stated for the
\* sessions in which every CREATE INDEX that registered an index completed.
C1_LiveTupleFoundInEveryIndex ==
    ~ref.index_incomplete =>
    \A j \in 1..Len(LiveTuples(TheState)) : \A m \in 1..Len(IndexMetas(TheState)) :
        LET t == LiveTuples(TheState)[j]
            meta == IndexMetas(TheState)[m]
            found == BTreeIndex_search(IndexView(TheState, meta.index_name),
                                       KeyIn(t.values, meta))
        IN  \/ found = t.ctid
            \/ /\ ~meta.unique
               /\ \E j2 \in 1..Len(LiveTuples(TheState)) :
                     /\ LiveTuples(TheState)[j2].ctid = found
                     /\ KeyIn(LiveTuples(TheState)[j2].values, meta) = KeyIn(t.values, meta)

\* C2: between statements of the first session on a directory, every
\* (key, ctid) entry of every index refers to a live tuple: read_tuple(ctid)
\* returns a tuple whose projected, truncated key is the stored key
C2_IndexEntryRefersToLiveTuple ==
    ~ref.restarted =>
        \A m \in 1..Len(IndexMetas(TheState)) :
            \A e \in Entries(TheState, IndexMetas(TheState)[m].index_name) :
                LET rd == read_tuple(HeapView(TheState), e.ctid, Schema).tuple
                IN  /\ rd # None
                    /\ KeyIn(rd, IndexMetas(TheState)[m]) = e.key

\* what a session finds of the rows that were live before it started
Persisted(rows, st) ==
    LET sel == execute_select(st, NoWhere)
        p == _get_primary_key_index(st)
        g == _get_heap_file(p.st)
    IN  /\ sel.raised = ""
        /\ p.raised = ""
        /\ g.raised = ""
        /\ \A j \in 1..Len(rows) :
              /\ \E k \in 1..Len(sel.result) : sel.result[k] = rows[j].values
              /\ LET ctid == BTreeIndex_search(IxOf(g.st, "pkey"),
                                 _extract_key(rows[j].values, Schema, primary_key))
                 IN  /\ ctid # None
                     /\ read_tuple(HeapOf(g.st), ctid, Schema).tuple = rows[j].values

\* C3: after shutdown() and a new QueryExecutor on the same directory, every
\* row that was live before is returned by SELECT * and by
\* read_tuple(pkey.search(pk)) with its values
C3_RowsPersistAcrossRestart ==
    [][(last'.op = "Restart" /\ T \in DOMAIN catalog.tables)
            => Persisted(LiveTuples(TheState), TheState')]_vars

\* C6: an INSERT that passed the primary-key check and raised at a later index
\* leaves no pkey entry for the rejected row
C6_FailedInsertLeavesNoPkeyEntry ==
    [][(/\ last'.op = "InsertCommand"
        /\ last'.raised = "ValueError"
        /\ T \in DOMAIN catalog.tables
        /\ BTreeIndex_search(IndexView(TheState, "pkey"),
                             _extract_key(last'.info, Schema, primary_key)) = None)
            => BTreeIndex_search(IndexView(TheState', "pkey"),
                                 _extract_key(last'.info, Schema, primary_key)) = None]_vars

\* C7: an UPDATE that raises leaves the rows of the table as they were before
\* the statement
C7_FailedUpdateChangesNoRow ==
    [][(last'.op = "UpdateCommand" /\ last'.raised # "")
            => LiveRows(TheState') = LiveRows(TheState)]_vars


(***************************************************************************)
(* SpecTxn: a session on a directory that holds the empty table, in which  *)
(* the client also issues BEGIN, COMMIT and ROLLBACK.                      *)
(***************************************************************************)
TxnRows == {<<IntV(id), TextV(Short)>> : id \in ExecIds}
TxnWheres == {NoWhere, [col |-> "id", val |-> IntV(1)]}
TxnAssignments == {[col |-> "a", val |-> TextV(Long2)]}

InitTxn ==
    /\ catalog = execute_create_table(EmptyDirectory, Schema, primary_key).st.catalog
    /\ catalog_file = execute_create_table(EmptyDirectory, Schema, primary_key).st.catalog_file
    /\ heap_file = execute_create_table(EmptyDirectory, Schema, primary_key).st.heap_file
    /\ index_files = execute_create_table(EmptyDirectory, Schema, primary_key).st.index_files
    /\ buffer_pool = execute_create_table(EmptyDirectory, Schema, primary_key).st.buffer_pool
    /\ heap_files = execute_create_table(EmptyDirectory, Schema, primary_key).st.heap_files
    /\ indexes = execute_create_table(EmptyDirectory, Schema, primary_key).st.indexes
    /\ last = [op |-> "CreateTableCommand", raised |-> "", result |-> None, info |-> None]
    /\ ref = [txn |-> "none", rows |-> {}, restarted |-> FALSE, index_incomplete |-> FALSE]
    /\ nops = 0

\* info.idle: no BEGIN was issued since the session started or since the
\* last COMMIT or ROLLBACK
ExecBegin ==
    /\ Statement([type |-> "BeginCommand"], None, [idle |-> ref.txn # "begun"])
    /\ ref' = [ref EXCEPT !.txn = "begun", !.rows = LiveRows(TheState)]
    /\ UNCHANGED nops

ExecCommit ==
    /\ Statement([type |-> "CommitCommand"], None, [idle |-> ref.txn # "begun"])
    /\ ref' = [ref EXCEPT !.txn = "none", !.rows = {}]
    /\ UNCHANGED nops

ExecRollback ==
    /\ Statement([type |-> "RollbackCommand"], None, [idle |-> ref.txn # "begun"])
    /\ ref' = IF ref.txn = "begun" THEN [ref EXCEPT !.txn = "rolled back"]
              ELSE [ref EXCEPT !.txn = "none", !.rows = {}]
    /\ UNCHANGED nops

NextTxn ==
    \/ \E values \in TxnRows : ExecInsert(values)
    \/ \E assignment \in TxnAssignments, where \in TxnWheres : ExecUpdate(assignment, where)
    \/ \E where \in TxnWheres : ExecDelete(where)
    \/ ExecBegin
    \/ ExecCommit
    \/ ExecRollback

SpecTxn == InitTxn /\ [][NextTxn]_vars

\* C8: after BEGIN, INSERT, UPDATE and DELETE statements and then ROLLBACK,
\* the table holds exactly the rows it held at the BEGIN
C8_RollbackRestoresRows ==
    (last.op = "RollbackCommand" /\ ref.txn = "rolled back")
        => LiveRows(TheState) = ref.rows

\* C9: a BEGIN issued while the session is idle succeeds
C9_BeginSucceedsWhenIdle ==
    (last.op = "BeginCommand" /\ last.info.idle) => last.raised = ""

(***************************************************************************)
(* SpecLoaded: a session on a table that already received the INSERTs of   *)
(* SessionKeys, the keys of the B-tree test followed by 1.                 *)
(***************************************************************************)
SessionKeys == SubSeq(LoadKeys, 1, 13) \o <<1>>
LoadedRows == {<<IntV(id), TextV(Short)>> : id \in OpKeys}
LoadedWheres == {[col |-> "id", val |-> IntV(id)] : id \in {1, 20, 30}}

RECURSIVE LoadedExecutor(_)
LoadedExecutor(n) ==
    IF n = 0 THEN execute_create_table(EmptyDirectory, Schema, primary_key).st
    ELSE execute_insert(LoadedExecutor(n - 1),
                        <<IntV(SessionKeys[n]), TextV(Short)>>).st

InitLoaded ==
    /\ catalog = LoadedExecutor(Len(SessionKeys)).catalog
    /\ catalog_file = LoadedExecutor(Len(SessionKeys)).catalog_file
    /\ heap_file = LoadedExecutor(Len(SessionKeys)).heap_file
    /\ index_files = LoadedExecutor(Len(SessionKeys)).index_files
    /\ buffer_pool = LoadedExecutor(Len(SessionKeys)).buffer_pool
    /\ heap_files = LoadedExecutor(Len(SessionKeys)).heap_files
    /\ indexes = LoadedExecutor(Len(SessionKeys)).indexes
    /\ last = [op |-> "InsertCommand", raised |-> "", result |-> None,
               info |-> <<IntV(SessionKeys[Len(SessionKeys)]), TextV(Short)>>]
    /\ ref = [txn |-> "none", rows |-> {}, restarted |-> FALSE, index_incomplete |-> FALSE]
    /\ nops = 0

NextLoaded ==
    \/ \E values \in LoadedRows : ExecInsert(values)
    \/ \E where \in LoadedWheres : ExecDelete(where)

SpecLoaded == InitLoaded /\ [][NextLoaded]_vars

\* C5: an INSERT whose primary key is that of a live row raises and changes
\* nothing: live tuples, entries of every index and row_count are as before
C5_DuplicatePkInsertChangesNothing ==
    [][(/\ last'.op = "InsertCommand"
        /\ \E r \in LiveRows(TheState) :
              _extract_key(r, Schema, primary_key)
                  = _extract_key(last'.info, Schema, primary_key))
            => /\ last'.raised # ""
               /\ LiveTuples(TheState') = LiveTuples(TheState)
               /\ \A m \in 1..Len(IndexMetas(TheState)) :
                     Entries(TheState', IndexMetas(TheState)[m].index_name)
                         = Entries(TheState, IndexMetas(TheState)[m].index_name)
               /\ get_statistics(TheState').row_count
                     = get_statistics(TheState).row_count]_vars


(***************************************************************************)
(* SpecTuple: Tuple.serialize and Tuple.deserialize used directly, as      *)
(* src/tests/test_storage.py does, on schemas of two columns of every type *)
(* and nullability and on a schema of ten columns, nine of them nullable,  *)
(* whose null bitmap takes two bytes.  The FLOAT type is left out.  last   *)
(* keeps the schema, the values, the record and what deserialize made of   *)
(* the record.                                                             *)
(***************************************************************************)
ColumnDef(name, datatype, nullable) ==
    [name |-> name, datatype |-> datatype, nullable |-> nullable, unique |-> FALSE]

ColumnTypes == {"INT", "BIGINT", "TEXT", "BOOLEAN", "TIMESTAMP"}

TupleSchemas ==
    {<<ColumnDef("c1", d1, n1), ColumnDef("c2", d2, n2)>> :
        d1 \in ColumnTypes, d2 \in ColumnTypes, n1 \in BOOLEAN, n2 \in BOOLEAN}

WideSchema ==
    [c \in 1..10 |-> ColumnDef(<<"c", c>>, "INT", c # 5)]

\* é followed by x: a code point that takes two bytes in UTF-8
NonAscii == <<233, 120>>

\* the values a column of the schemas can take
ValuesOf(col) ==
    (IF col.nullable THEN {NullV} ELSE {})
    \cup (IF col.datatype = "INT" THEN {IntV(0 - 1), IntV(255), IntV(2147483647)}
          ELSE IF col.datatype = "BIGINT" THEN {IntV(0 - 2), IntV(65536)}
          ELSE IF col.datatype = "BOOLEAN" THEN {BoolV(TRUE), BoolV(FALSE)}
          ELSE IF col.datatype = "TIMESTAMP" THEN {IntV(1700000000)}
          ELSE {TextV(<<>>), TextV(NonAscii), TextV(Long1)})

\* the schema-consistent tuples of a schema
TuplesOf(schema) ==
    IF schema = WideSchema
    THEN {values \in [1..10 -> {NullV, IntV(7)}] :
              \A c \in 1..10 : values[c] = NullV => schema[c].nullable}
    ELSE {<<v1, v2>> : v1 \in ValuesOf(schema[1]), v2 \in ValuesOf(schema[2])}

InitTuple ==
    /\ last = [op |-> "create", schema |-> <<>>, values |-> <<>>, data |-> <<>>,
               result |-> None]
    /\ catalog = None /\ catalog_file = None /\ heap_file = None
    /\ index_files = EmptyFn /\ indexes = EmptyFn
    /\ buffer_pool = None /\ heap_files = None
    /\ ref = None
    /\ nops = 0

\* Tuple(values, schema).serialize()
TupleSerialize(schema, values) ==
    /\ last.op = "create"
    /\ ~Tuple_raises(values, schema)
    /\ last' = [op |-> "serialize", schema |-> schema, values |-> values,
                data |-> Tuple_serialize(values, schema), result |-> None]
    /\ UNCHANGED <<catalog, catalog_file, heap_file, index_files, buffer_pool,
                   heap_files, indexes, ref, nops>>

\* Tuple.deserialize(data, schema) of the record just made
TupleDeserialize ==
    /\ last.op = "serialize"
    /\ last' = [last EXCEPT !.op = "deserialize",
                            !.result = Tuple_deserialize(last.data, last.schema)]
    /\ UNCHANGED <<catalog, catalog_file, heap_file, index_files, buffer_pool,
                   heap_files, indexes, ref, nops>>

NextTuple ==
    \/ \E schema \in TupleSchemas \cup {WideSchema} :
          \E values \in TuplesOf(schema) : TupleSerialize(schema, values)
    \/ TupleDeserialize

SpecTuple == InitTuple /\ [][NextTuple]_vars

MaxGets == 4

PoolPageNums == 0..MaxPool

Resident(pool) == {pool.cache[j].key : j \in 1..Len(pool.cache)}

InitPool ==
    /\ \E size \in 1..MaxPool : buffer_pool = BufferPool(size)
    /\ heap_file = [page_count |-> MaxPool + 1,
                    pages |-> [n \in 1..(MaxPool + 1) |-> Page_serialize(Page(n - 1))]]
    /\ heap_files = None
    /\ ref = [n \in PoolPageNums |-> [got |-> 0, loaded |-> 0]]
    /\ catalog = None /\ catalog_file = None
    /\ index_files = EmptyFn /\ indexes = EmptyFn
    /\ last = [op |-> "create", page |-> NoPage, evicted |-> {}]
    /\ nops = 0

\* the pool and the file after a call that returned g
PoolSet(g, op, page_num) ==
    /\ buffer_pool' = g.pool
    /\ heap_file' = g.file
    /\ last' = [op |-> op, page |-> page_num,
                evicted |-> Resident(buffer_pool) \ Resident(g.pool)]
    /\ UNCHANGED <<catalog, catalog_file, index_files, indexes, heap_files>>

PoolGetPage(page_num) ==
    /\ nops < MaxGets
    /\ PoolSet(get_page(buffer_pool, heap_file, page_num), "get_page", page_num)
    /\ ref' = [ref EXCEPT ![page_num] =
                  [got |-> nops + 1,
                   loaded |-> IF page_num \in Resident(buffer_pool) THEN @.loaded
                              ELSE nops + 1]]
    /\ nops' = nops + 1

PoolMarkDirty(page_num) ==
    /\ PoolSet([pool |-> mark_dirty(buffer_pool, page_num), file |-> heap_file],
               "mark_dirty", NoPage)
    /\ UNCHANGED <<ref, nops>>

PoolFlushAll ==
    /\ PoolSet(flush_all(buffer_pool, heap_file), "flush_all", NoPage)
    /\ UNCHANGED <<ref, nops>>

PoolInvalidate(page_num) ==
    /\ PoolSet([pool |-> invalidate(buffer_pool, page_num), file |-> heap_file],
               "invalidate", NoPage)
    /\ UNCHANGED <<ref, nops>>

NextPool ==
    \/ \E page_num \in PoolPageNums : PoolGetPage(page_num)
    \/ \E page_num \in PoolPageNums : PoolMarkDirty(page_num)
    \/ PoolFlushAll
    \/ \E page_num \in PoolPageNums : PoolInvalidate(page_num)

SpecPool == InitPool /\ [][NextPool]_vars

\* the resident page whose last get_page is the oldest
Oldest(pool) ==
    CHOOSE k \in Resident(pool) : \A m \in Resident(pool) : ref[k].got <= ref[m].got

\* C20: after every call the pool holds at most size pages, and a get_page
\* that misses with size pages resident removes exactly the resident page
\* whose last get_page is the oldest, whatever was marked dirty meanwhile
C20_AtMostNResidentAndLruEvicted ==
    [][/\ Len(buffer_pool'.cache) <= buffer_pool'.size
       /\ \A page_num \in PoolPageNums :
             (/\ PoolGetPage(page_num)
              /\ page_num \notin Resident(buffer_pool)
              /\ Len(buffer_pool.cache) = buffer_pool.size)
                => Resident(buffer_pool')
                       = (Resident(buffer_pool) \ {Oldest(buffer_pool)}) \cup {page_num}]_vars

\* C20 witness: a full pool lost, on a miss, a page that was loaded after a
\* page that stayed: the page that stayed was hit in between
C20_Witness ==
    /\ last.op = "get_page" /\ Len(buffer_pool.cache) = buffer_pool.size
    /\ \E e \in last.evicted :
          \E r \in Resident(buffer_pool) \ {last.page} :
              /\ ref[r].loaded < ref[e].loaded
              /\ ref[e].got < ref[r].got

(***************************************************************************)
(* SpecDirty: the pool of SpecPool with one more caller, who adds a record *)
(* of one byte to a resident page object and marks the page dirty, as      *)
(* insert_tuple does, so that a page in the pool differs from its copy in  *)
(* the file until it is written.                                           *)
(***************************************************************************)
\* number of records a page receives
MaxAdds == 1

\* page.add_tuple(b'\x01'); mark_dirty(page_num) on a resident page
PoolModify(page_num) ==
    /\ CachePos(buffer_pool, page_num) # {}
    /\ \E j \in CachePos(buffer_pool, page_num) :
          /\ buffer_pool.cache[j].page.free_space
                > PAGE_SIZE - PAGE_HEADER_SIZE - MaxAdds
          /\ PoolSet([pool |-> mark_dirty(SetCached(buffer_pool,
                                     add_tuple(buffer_pool.cache[j].page, <<1>>).page),
                                 page_num),
                      file |-> heap_file],
                     "add_tuple", NoPage)
    /\ UNCHANGED <<ref, nops>>

NextDirty ==
    \/ \E page_num \in PoolPageNums : PoolGetPage(page_num)
    \/ \E page_num \in PoolPageNums : PoolMarkDirty(page_num)
    \/ PoolFlushAll
    \/ \E page_num \in PoolPageNums : PoolInvalidate(page_num)
    \/ \E page_num \in PoolPageNums : PoolModify(page_num)

SpecDirty == InitPool /\ [][NextDirty]_vars

\* the page object the pool holds under a key
CachedPage(pool, key) == pool.cache[CHOOSE j \in CachePos(pool, key) : TRUE].page

\* C21: the dirty set is a subset of the resident keys; a page that stops
\* being dirty in a call other than invalidate has its contents in the file
\* after the call; a get_page that evicts only clean pages and an invalidate
\* write nothing; flush_all leaves no dirty page and the resident set as it
\* was
C21_DirtyPageWrittenBeforeClean ==
    [][/\ buffer_pool'.dirty_pages \subseteq Resident(buffer_pool')
       /\ \A key \in buffer_pool.dirty_pages \ buffer_pool'.dirty_pages :
             \/ last'.op = "invalidate"
             \/ heap_file'.pages[key + 1] = Page_serialize(CachedPage(buffer_pool, key))
       /\ (\/ last'.op = "invalidate"
           \/ last'.op = "get_page" /\ last'.evicted \cap buffer_pool.dirty_pages = {})
             => heap_file' = heap_file
       /\ last'.op = "flush_all"
             => /\ buffer_pool'.dirty_pages = {}
                /\ buffer_pool'.cache = buffer_pool.cache]_vars

\* C21 witness: a get_page has just evicted a page whose copy in the file
\* now holds a record added in the pool, while another page is still dirty
C21_Witness ==
    /\ last.op = "get_page"
    /\ \E key \in last.evicted : heap_file.pages[key + 1].tuple_count > 0
    /\ buffer_pool.dirty_pages # {}

(***************************************************************************)
(* SpecDrop: one QueryExecutor session that creates, fills, reads and      *)
(* drops the table, any number of times.  ref keeps the rows the table     *)
(* held at the last DROP TABLE.                                            *)
(***************************************************************************)
InitDrop ==
    /\ catalog = EmptyDirectory.catalog
    /\ catalog_file = EmptyDirectory.catalog_file
    /\ heap_file = EmptyDirectory.heap_file
    /\ index_files = EmptyDirectory.index_files
    /\ buffer_pool = EmptyDirectory.buffer_pool
    /\ heap_files = EmptyDirectory.heap_files
    /\ indexes = EmptyDirectory.indexes
    /\ last = [op |-> "QueryExecutor", raised |-> "", result |-> None, info |-> None]
    /\ ref = {}
    /\ nops = 0

ExecDropTable ==
    /\ Statement([type |-> "DropTableCommand"], execute_drop_table(TheState), None)
    /\ ref' = IF T \in DOMAIN catalog.tables THEN LiveRows(TheState) ELSE ref
    /\ UNCHANGED nops

NextDrop ==
    \/ ExecCreateTable
    \/ \E values \in TxnRows : ExecInsert(values)
    \/ \E where \in Wheres : ExecSelect(where)
    \/ ExecDropTable

SpecDrop == InitDrop /\ [][NextDrop]_vars

\* C22: a statement on the table raises ValueError while the table is
\* dropped, and right after the CREATE TABLE that follows a DROP TABLE a
\* SELECT, with or without WHERE, returns no row and an INSERT of any row,
\* those of the dropped table included, succeeds
C22_RecreatedTableIsEmpty ==
    /\ (last.op \in {"InsertCommand", "SelectCommand"} /\ T \notin DOMAIN catalog.tables)
          => last.raised = "ValueError"
    /\ (last.op = "CreateTableCommand" /\ last.raised = "")
          => /\ \A where \in Wheres :
                   /\ execute_select(TheState, where).raised = ""
                   /\ execute_select(TheState, where).result = <<>>
             /\ \A values \in TxnRows : execute_insert(TheState, values).raised = ""


(***************************************************************************)
(* Column constraints.  CREATE TABLE with one of the declarations below,   *)
(* then INSERT, with and without a column list, and UPDATE.  The B-tree    *)
(* orders keys with < and Python raises TypeError when None meets a key;   *)
(* that exception is not modelled, so a statement is left out where it     *)
(* would compare a NULL key with another key: a NULL key is inserted only  *)
(* into an empty index, and nothing follows once a NULL key is stored.     *)
(***************************************************************************)
Decl(name, datatype, constraints) ==
    [name |-> name, datatype |-> datatype, constraints |-> constraints]

\* id INT PRIMARY KEY, a TEXT
DeclInline ==
    [decls |-> <<Decl("id", "INT", {"PRIMARY KEY"}), Decl("a", "TEXT", {})>>, table_pk |-> <<>>]
\* id INT, a TEXT, PRIMARY KEY (id)
DeclTableLevel ==
    [decls |-> <<Decl("id", "INT", {}), Decl("a", "TEXT", {})>>, table_pk |-> <<"id">>]
\* id INT PRIMARY KEY, a TEXT UNIQUE
DeclUnique ==
    [decls |-> <<Decl("id", "INT", {"PRIMARY KEY"}), Decl("a", "TEXT", {"UNIQUE"})>>,
     table_pk |-> <<>>]
\* id INT PRIMARY KEY, a TEXT NOT NULL
DeclNotNull ==
    [decls |-> <<Decl("id", "INT", {"PRIMARY KEY"}), Decl("a", "TEXT", {"NOT NULL"})>>,
     table_pk |-> <<>>]

Declarations == {DeclInline, DeclTableLevel, DeclUnique, DeclNotNull}

ConsIds == {IntV(1), IntV(2), NullV}
ConsTexts == {TextV(Short), NullV}
ConsInserts ==
    {[columns |-> None, values |-> <<id, a>>] : id \in ConsIds, a \in ConsTexts}
    \cup {[columns |-> <<"id">>, values |-> <<id>>] : id \in ConsIds}
    \cup {[columns |-> <<"a">>, values |-> <<a>>] : a \in ConsTexts}
    \cup {[columns |-> <<"a", "id">>, values |-> <<a, id>>] : id \in ConsIds, a \in ConsTexts}
ConsAssignments ==
    {[col |-> "id", val |-> NullV], [col |-> "id", val |-> IntV(2)],
     [col |-> "a", val |-> NullV], [col |-> "a", val |-> TextV(Short)]}
ConsWheres == {NoWhere, [col |-> "id", val |-> IntV(1)]}

\* the values an INSERT command gives the columns of the schema
CommandValues(schema, cmd) ==
    IF cmd.columns = None THEN cmd.values ELSE MappedValues(schema, cmd.columns, cmd.values)

NullKeyStored(st) ==
    /\ T \in DOMAIN st.catalog.tables
    /\ \E e \in Entries(st, "pkey") : e.key = NullV

InitCons ==
    /\ catalog = EmptyDirectory.catalog
    /\ catalog_file = EmptyDirectory.catalog_file
    /\ heap_file = EmptyDirectory.heap_file
    /\ index_files = EmptyDirectory.index_files
    /\ buffer_pool = EmptyDirectory.buffer_pool
    /\ heap_files = EmptyDirectory.heap_files
    /\ indexes = EmptyDirectory.indexes
    /\ last = [op |-> "QueryExecutor", raised |-> "", result |-> None, info |-> None]
    /\ ref = {}
    /\ nops = 0

ConsCreateTable(decl) ==
    /\ Statement([type |-> "CreateTableCommand"],
                 execute_create_table(TheState,
                                      _parse_create_table(decl.decls, decl.table_pk).columns,
                                      _parse_create_table(decl.decls, decl.table_pk).primary_key),
                 decl)
    /\ UNCHANGED <<ref, nops>>

ConsInsert(cmd) ==
    /\ nops < MaxWrites
    /\ ~NullKeyStored(TheState)
    /\ (/\ T \in DOMAIN catalog.tables
        /\ SchemaOf(TheState)[1].nullable
        /\ CommandValues(SchemaOf(TheState), cmd)[1] = NullV) => Entries(TheState, "pkey") = {}
    /\ Statement([type |-> "InsertCommand"],
                 execute_insert_columns(TheState, cmd.columns, cmd.values), cmd)
    /\ nops' = nops + 1
    /\ UNCHANGED ref

ConsUpdate(assignment, where) ==
    /\ nops < MaxWrites
    /\ ~NullKeyStored(TheState)
    /\ (/\ T \in DOMAIN catalog.tables
        /\ assignment = [col |-> "id", val |-> NullV]) => ~SchemaOf(TheState)[1].nullable
    /\ Statement([type |-> "UpdateCommand"], execute_update(TheState, assignment, where),
                 [assignment |-> assignment, where |-> where])
    /\ nops' = nops + 1
    /\ UNCHANGED ref

NextCons ==
    \/ \E decl \in Declarations : ConsCreateTable(decl)
    \/ \E cmd \in ConsInserts : ConsInsert(cmd)
    \/ \E assignment \in ConsAssignments, where \in ConsWheres : ConsUpdate(assignment, where)

SpecCons == InitCons /\ [][NextCons]_vars

\* a row holds NULL in a column the schema declares NOT NULL
NullInNotNull(values, schema) ==
    \E c \in 1..Len(schema) : values[c] = NullV /\ ~schema[c].nullable

\* C23: an INSERT, with or without a column list, whose values give NULL to
\* a column declared NOT NULL (a column left out of the list counts as NULL)
\* raises ValueError and leaves the heap, the indexes, the catalog with its
\* statistics and the buffer pool as they were; an UPDATE that assigns NULL to
\* such a column and matches a row raises ValueError; and after every
\* statement no live row holds NULL in a column declared NOT NULL
C23_NotNullNeverViolated ==
    [][/\ (/\ T \in DOMAIN catalog.tables
           /\ last'.op = "InsertCommand"
           /\ NullInNotNull(CommandValues(SchemaOf(TheState), last'.info), SchemaOf(TheState)))
             => /\ last'.raised = "ValueError"
                /\ TheState' = TheState
       /\ (/\ T \in DOMAIN catalog.tables
           /\ last'.op = "UpdateCommand"
           /\ last'.info.assignment.val = NullV
           /\ ~SchemaOf(TheState)[get_column_index(SchemaOf(TheState),
                                                   last'.info.assignment.col)].nullable
           /\ \E values \in LiveRows(TheState) :
                 \/ last'.info.where = NoWhere
                 \/ _evaluate_expression(last'.info.where, values, SchemaOf(TheState)))
             => last'.raised = "ValueError"
       /\ T \in DOMAIN catalog'.tables
             => \A values \in LiveRows(TheState') :
                   ~NullInNotNull(values, SchemaOf(TheState'))]_vars

\* an INSERT that leaves the NOT NULL column id out of its column list has
\* been rejected on a table that holds a row
C23_Witness ==
    /\ last.op = "InsertCommand"
    /\ last.info.columns = <<"a">>
    /\ last.raised = "ValueError"
    /\ T \in DOMAIN catalog.tables
    /\ ~SchemaOf(TheState)[1].nullable
    /\ LiveRows(TheState) # {}

\* an UPDATE that assigns NULL to the NOT NULL column a has been rejected
C23_WitnessUpdate ==
    /\ last.op = "UpdateCommand"
    /\ last.info.assignment = [col |-> "a", val |-> NullV]
    /\ last.raised = "ValueError"
    /\ LiveRows(TheState) # {}

\* the positions of the primary-key columns in the schema of the table
KeyPositions(st) ==
    {get_column_index(SchemaOf(st), PrimaryKeyOf(st)[j]) : j \in 1..Len(PrimaryKeyOf(st))}

\* C24: whichever way the primary key of the table was declared, an INSERT
\* whose values give NULL to a primary-key column raises, and no live row
\* holds NULL in a primary-key column
C24_PrimaryKeyNeverNull ==
    T \in DOMAIN catalog.tables =>
        /\ (/\ last.op = "InsertCommand"
            /\ \E c \in KeyPositions(TheState) :
                  CommandValues(SchemaOf(TheState), last.info)[c] = NullV)
              => last.raised # ""
        /\ \A values \in LiveRows(TheState) :
              \A c \in KeyPositions(TheState) : values[c] # NullV

\* C25: when the table was created with a column declared UNIQUE, no two
\* live tuples hold the same value other than NULL in that column
C25_UniqueColumnHoldsNoDuplicate ==
    T \in DOMAIN catalog.tables =>
        \A c \in 1..Len(SchemaOf(TheState)) :
            SchemaOf(TheState)[c].unique =>
                \A i, j \in 1..Len(LiveTuples(TheState)) :
                    (/\ i # j
                     /\ LiveTuples(TheState)[i].values[c] # NullV)
                       => LiveTuples(TheState)[i].values[c] # LiveTuples(TheState)[j].values[c]


\* the number of tuples of rows that hold values
CountRows(rows, values) == Cardinality({j \in 1..Len(rows) : rows[j].values = values})

\* the positions of the tuples that WHERE selects
Selected(rows, where, schema) ==
    {j \in 1..Len(rows) : where = NoWhere \/ rows[j].values[get_column_index(schema, where.col)]
                                                = where.val}

\* what UPDATE t SET assignment WHERE where makes of the live tuples before
Updated(before, assignment, where, schema) ==
    [j \in 1..Len(before) |->
        IF j \in Selected(before, where, schema)
        THEN [before[j].values EXCEPT ![get_column_index(schema, assignment.col)]
                                          = assignment.val]
        ELSE before[j].values]

UpdatePost(before, after, assignment, where, schema) ==
    /\ last'.result = Cardinality(Selected(before, where, schema))
    /\ Len(after) = Len(before)
    /\ \A j \in 1..Len(before) :
          Cardinality({i \in 1..Len(after) : after[i].values = before[j].values})
             = Cardinality({i \in 1..Len(before) :
                               Updated(before, assignment, where, schema)[i]
                                  = before[j].values})
    /\ \A j \in 1..Len(after) :
          Cardinality({i \in 1..Len(after) : after[i].values = after[j].values})
             = Cardinality({i \in 1..Len(before) :
                               Updated(before, assignment, where, schema)[i]
                                  = after[j].values})
    /\ \A j \in 1..Len(before) :
          j \notin Selected(before, where, schema) => \E i \in 1..Len(after) : after[i] = before[j]

\* C26: an UPDATE that returns replaces the assigned column in every row that
\* matched WHERE when it started and in no other, each matched row once: the
\* live rows afterwards are the rows before with the assignment applied to
\* the matched ones, the rows that did not match keep values and ctid, the
\* number of live rows is unchanged and the result is the number of matched
\* rows
C26_UpdateReplacesMatchedRowsOnce ==
    [][(last'.op = "UpdateCommand" /\ last'.raised = "") =>
          \A assignment \in Assignments, where \in Wheres :
              ExecUpdate(assignment, where)
                 => UpdatePost(LiveTuples(TheState), LiveTuples(TheState'), assignment, where,
                               SchemaOf(TheState))]_vars

\* an UPDATE without WHERE has replaced a in two rows
C26_Witness ==
    /\ last.op = "UpdateCommand"
    /\ last.raised = ""
    /\ last.result = 2
    /\ LiveRows(TheState) = {<<IntV(1), TextV(Long2)>>, <<IntV(2), TextV(Long2)>>}


(***************************************************************************)
(* Queries.  The WHERE evaluation, the part of SELECT behind the scan and  *)
(* the choice of the scan method, on tuples, commands and index lists      *)
(* drawn from small sets.  The table is                                    *)
(* t (id INT PRIMARY KEY, a TEXT, n INT).  last is the call and its        *)
(* result; each behaviour makes one call.                                  *)
(***************************************************************************)
QuerySchema ==
    _parse_create_table(<<Decl("id", "INT", {"PRIMARY KEY"}), Decl("a", "TEXT", {}),
                          Decl("n", "INT", {})>>, <<>>).columns

TextY == <<121>>
QueryTexts == {TextV(Short), TextV(TextY), NullV}
QueryNumbers == {IntV(1), IntV(2), NullV}
MaxTuples == 3

\* the tuples of a scan: the row at position j has the id j
TupleLists ==
    UNION {[1..n -> QueryTexts \X QueryNumbers] : n \in 0..MaxTuples}
ScannedTuples(list) == [j \in 1..Len(list) |-> <<IntV(j), list[j][1], list[j][2]>>]

Operands ==
    {ColumnRef("a"), ColumnRef("n"), Literal(NullV), Literal(IntV(1)), Literal(TextV(Short))}
Comparisons == {BinaryOp(op, left, right) : op \in ComparisonOps, left, right \in Operands}

\* both operand values are of one type, or one is NULL
SameType(left_val, right_val) ==
    left_val.k = right_val.k \/ left_val.k = "null" \/ right_val.k = "null"

OrderBys ==
    {<<>>} \cup {<<[column |-> column, direction |-> direction]>> :
                    column \in {"a", "n"}, direction \in {"ASC", "DESC"}}
MaxLimit == 2
SelectCommands ==
    {[where |-> where, order_by |-> order_by, limit |-> limit, offset |-> offset] :
        where \in {NoExpression, BinaryOp("=", ColumnRef("a"), Literal(TextV(Short)))},
        order_by \in OrderBys,
        limit \in {NoNumber} \cup 0..MaxLimit,
        offset \in {NoNumber} \cup 0..(MaxLimit - 1)}

IndexMeta(index_name, columns) ==
    [index_name |-> index_name, table_name |-> T, columns |-> columns, unique |-> FALSE]
IndexLists ==
    {<<IndexMeta("pkey", <<"id">>)>>} \cup
    {<<IndexMeta("pkey", <<"id">>), IndexMeta("ix", columns)>> :
        columns \in {<<"a">>, <<"a", "n">>, <<"n", "a">>}}
WhereTrees ==
    {NoExpression}
    \cup {BinaryOp(op, left, Literal(IntV(1))) :
            op \in ComparisonOps \cup {"AND", "OR", "LIKE"},
            left \in {ColumnRef("id"), ColumnRef("a"), ColumnRef("n"), Literal(IntV(1)),
                      BinaryOp("=", ColumnRef("id"), Literal(IntV(1)))}}
    \cup {UnaryOp("NOT", BinaryOp("=", ColumnRef(column), Literal(IntV(1)))) :
            column \in {"id", "a", "n"}}

InitQuery ==
    /\ catalog = None
    /\ catalog_file = None
    /\ heap_file = None
    /\ index_files = None
    /\ buffer_pool = None
    /\ heap_files = None
    /\ indexes = None
    /\ last = [op |-> "none"]
    /\ ref = None
    /\ nops = 0

QuerySet(call) ==
    /\ last' = call
    /\ UNCHANGED <<catalog, catalog_file, heap_file, index_files, buffer_pool, heap_files,
                   indexes, ref, nops>>

QueryEvaluate ==
    /\ last.op = "none"
    /\ \E expr \in Comparisons, a \in QueryTexts, n \in QueryNumbers :
          /\ expr.op \in {"<", ">", "<=", ">="}
                => SameType(EvaluateExpression(expr.args[1], <<IntV(1), a, n>>, QuerySchema),
                            EvaluateExpression(expr.args[2], <<IntV(1), a, n>>, QuerySchema))
          /\ QuerySet([op |-> "_evaluate_expression", expr |-> expr,
                       values |-> <<IntV(1), a, n>>,
                       result |-> EvaluateExpression(expr, <<IntV(1), a, n>>, QuerySchema)])

QuerySelect ==
    /\ last.op = "none"
    /\ \E list \in TupleLists, cmd \in SelectCommands :
          QuerySet([op |-> "execute_select", tuples |-> ScannedTuples(list), cmd |-> cmd,
                    raised |-> select_Rows(ScannedTuples(list), QuerySchema, cmd).raised,
                    result |-> select_Rows(ScannedTuples(list), QuerySchema, cmd).rows])

QueryExplain ==
    /\ last.op = "none"
    /\ \E metas \in IndexLists, where_expr \in WhereTrees :
          QuerySet([op |-> "execute_explain", metas |-> metas, where |-> where_expr,
                    result |-> ChooseScanMethod(metas, where_expr)])

NextQuery ==
    \/ QueryEvaluate
    \/ QuerySelect
    \/ QueryExplain

SpecQuery == InitQuery /\ [][NextQuery]_vars

\* C27: a comparison =, !=, <, >, <= or >= of which an operand evaluates to
\* NULL evaluates to false
C27_ComparisonWithNullIsFalse ==
    (/\ last.op = "_evaluate_expression"
     /\ \/ EvaluateExpression(last.expr.args[1], last.values, QuerySchema) = NullV
        \/ EvaluateExpression(last.expr.args[2], last.values, QuerySchema) = NullV)
       => ~Truthy(last.result)

\* the tuples of the scan that the WHERE clause of the command selects
Filtered(tuples, cmd) ==
    SelectSeq(tuples, LAMBDA values :
                  cmd.where = NoExpression \/ values[2] = cmd.where.args[2].value)

\* two values of the ORDER BY column may follow one another in this order
InOrder(first, second, direction) ==
    IF direction = "ASC"
    THEN second = NullV \/ (first # NullV /\ ~KeyLess(second, first))
    ELSE first = NullV \/ (second # NullV /\ ~KeyLess(first, second))

\* C28: a SELECT with ORDER BY c and neither LIMIT nor OFFSET returns the
\* filtered rows, each once, in an order that is non-decreasing on c for ASC
\* and non-increasing for DESC, the rows with NULL in c last for ASC and
\* first for DESC
C28_OrderByIsTotalSort ==
    (/\ last.op = "execute_select"
     /\ last.cmd.order_by # <<>>
     /\ last.cmd.limit = NoNumber
     /\ last.cmd.offset = NoNumber)
       => /\ last.raised = ""
          /\ Len(last.result) = Len(Filtered(last.tuples, last.cmd))
          /\ \A j \in 1..Len(Filtered(last.tuples, last.cmd)) :
                \E i \in 1..Len(last.result) :
                    last.result[i] = Filtered(last.tuples, last.cmd)[j]
          /\ \A i, j \in 1..Len(last.result) :
                i < j => InOrder(last.result[i][get_column_index(QuerySchema,
                                                    last.cmd.order_by[1].column)],
                                 last.result[j][get_column_index(QuerySchema,
                                                    last.cmd.order_by[1].column)],
                                 last.cmd.order_by[1].direction)

\* the rows at the positions offset .. offset + limit - 1, counted from 0
Window(rows, offset, limit) ==
    SubSeq(rows, Min2(offset, Len(rows)) + 1, Min2(offset + limit, Len(rows)))

\* C29: a SELECT without ORDER BY returns the filtered rows at the positions
\* OFFSET .. OFFSET + LIMIT - 1 (OFFSET 0 when there is none, all rows behind
\* OFFSET when there is no LIMIT), so at most LIMIT rows and none for LIMIT 0
C29_OffsetThenLimit ==
    (last.op = "execute_select" /\ last.cmd.order_by = <<>>)
       => /\ last.raised = ""
          /\ last.result
               = Window(Filtered(last.tuples, last.cmd),
                        IF last.cmd.offset = NoNumber THEN 0 ELSE last.cmd.offset,
                        IF last.cmd.limit = NoNumber THEN Len(last.tuples)
                        ELSE last.cmd.limit)

\* C30: the scan method is "index" exactly when the top node of WHERE is a
\* comparison with =, <, <=, > or >= whose left operand is a column that is
\* the first key column of an index of the table
C30_IndexScanOnlyOnFirstKeyColumn ==
    last.op = "execute_explain"
       => (last.result = "index"
             <=> /\ last.where.type = "BinaryOp"
                 /\ last.where.op \in {"=", "<", "<=", ">", ">="}
                 /\ last.where.args[1].type = "ColumnRef"
                 /\ \E j \in 1..Len(last.metas) :
                       last.metas[j].columns[1] = last.where.args[1].column_name)


(***************************************************************************)
(* The catalog alone.  create_table, create_index, drop_table,             *)
(* update_statistics and get_statistics on one Catalog object and its      *)
(* file, for the tables "a" and "a_b" and the name "zz" of no table.  The  *)
(* index "b_pkey" of "a" and the index "pkey" of "a_b" have the same key   *)
(* "a_b_pkey" in self.indexes.  last is the call, its arguments and the     *)
(* exception it raised.                                                    *)
(***************************************************************************)
CatTables == {"a", "a_b"}
CatNames == CatTables \cup {"zz"}
CatKeys == {<<"id">>, <<>>, <<"zz">>}
CatMetas ==
    {IndexMetadata(index_name, table_name, columns, unique) :
        index_name \in {"ix", "b_pkey", "pkey"}, table_name \in CatNames,
        columns \in {<<"a">>, <<"zz">>}, unique \in {FALSE}}
CatStatistics == {TableStatistics, [TableStatistics EXCEPT !.row_count = 1]}

InitCat ==
    /\ catalog = Catalog
    /\ catalog_file = None
    /\ heap_file = None
    /\ index_files = None
    /\ buffer_pool = None
    /\ heap_files = None
    /\ indexes = None
    /\ last = [op |-> "Catalog", table_name |-> "", meta |-> None, pk |-> <<>>, raised |-> ""]
    /\ ref = None
    /\ nops = 0

\* a call that ends with save() unless it raised; c is [raised, cat]
CatCall(c) ==
    /\ catalog' = c.cat
    /\ catalog_file' = IF c.raised = "" THEN Catalog_save(c.cat) ELSE catalog_file
    /\ UNCHANGED <<heap_file, index_files, buffer_pool, heap_files, indexes, ref, nops>>

CatCreateTable(table_name, pk) ==
    /\ CatCall(Catalog_create_table(catalog, table_name, Schema, pk))
    /\ last' = [op |-> "create_table", table_name |-> table_name, meta |-> None, pk |-> pk,
                raised |-> Catalog_create_table(catalog, table_name, Schema, pk).raised]

\* the columns of the table of meta, read once the table is known to exist
ColumnsFor(cat, meta) ==
    IF meta.table_name \in DOMAIN cat.tables THEN cat.tables[meta.table_name].columns
    ELSE <<>>

CatCreateIndex(meta) ==
    /\ CatCall(Catalog_create_index(catalog, meta, ColumnsFor(catalog, meta)))
    /\ last' = [op |-> "create_index", table_name |-> meta.table_name, meta |-> meta,
                pk |-> <<>>,
                raised |-> Catalog_create_index(catalog, meta,
                                                ColumnsFor(catalog, meta)).raised]

CatDropTable(table_name) ==
    /\ CatCall(IF table_name \notin DOMAIN catalog.tables
               THEN [raised |-> "ValueError", cat |-> catalog]
               ELSE [raised |-> "", cat |-> Catalog_drop_table(catalog, table_name)])
    /\ last' = [op |-> "drop_table", table_name |-> table_name, meta |-> None, pk |-> <<>>,
                raised |-> IF table_name \notin DOMAIN catalog.tables THEN "ValueError"
                           ELSE ""]

CatUpdateStatistics(table_name, stats) ==
    /\ CatCall([raised |-> "",
                cat |-> Catalog_update_statistics(catalog, table_name, stats)])
    /\ last' = [op |-> "update_statistics", table_name |-> table_name, meta |-> None,
                pk |-> <<>>, raised |-> ""]

CatGetStatistics(table_name) ==
    /\ catalog' = Catalog_get_statistics(catalog, table_name)
    /\ last' = [op |-> "get_statistics", table_name |-> table_name, meta |-> None,
                pk |-> <<>>, raised |-> ""]
    /\ UNCHANGED <<catalog_file, heap_file, index_files, buffer_pool, heap_files, indexes,
                   ref, nops>>

NextCat ==
    \/ \E table_name \in CatTables, pk \in CatKeys : CatCreateTable(table_name, pk)
    \/ \E meta \in CatMetas : CatCreateIndex(meta)
    \/ \E table_name \in CatNames : CatDropTable(table_name)
    \/ \E table_name \in CatNames, stats \in CatStatistics :
          CatUpdateStatistics(table_name, stats)
    \/ \E table_name \in CatNames : CatGetStatistics(table_name)

SpecCat == InitCat /\ [][NextCat]_vars

\* the (table, index-name) pair of meta is registered
PairRegistered(cat, meta) ==
    \E j \in 1..Len(cat.indexes) :
        /\ cat.indexes[j].table_name = meta.table_name
        /\ cat.indexes[j].index_name = meta.index_name

\* C31: create_table with the name of a registered table, an empty primary
\* key or a primary-key column the table does not have, create_index on an
\* unknown table, with an unknown key column or with a registered (table,
\* index-name) pair, and drop_table of an unknown table raise; and a call
\* that raises leaves the catalog and the catalog file as they were
C31_RejectedMutationChangesNothing ==
    [][/\ (/\ last'.op = "create_table"
           /\ \/ last'.table_name \in DOMAIN catalog.tables
              \/ last'.pk = <<>>
              \/ \E c \in 1..Len(last'.pk) : \A d \in 1..Len(Schema) :
                    Schema[d].name # last'.pk[c])
             => last'.raised = "ValueError"
       /\ (/\ last'.op = "create_index"
           /\ \/ last'.table_name \notin DOMAIN catalog.tables
              \/ \E c \in 1..Len(last'.meta.columns) : \A d \in 1..Len(Schema) :
                    Schema[d].name # last'.meta.columns[c]
              \/ PairRegistered(catalog, last'.meta))
             => last'.raised = "ValueError"
       /\ (last'.op = "drop_table" /\ last'.table_name \notin DOMAIN catalog.tables)
             => last'.raised = "ValueError"
       /\ last'.raised # "" => (catalog' = catalog /\ catalog_file' = catalog_file)]_vars

\* a create_index with an unknown key column has been rejected on a table
\* that has a secondary index
C31_Witness ==
    /\ last.op = "create_index"
    /\ last.raised = "ValueError"
    /\ last.table_name = "a"
    /\ last.meta.columns = <<"zz">>
    /\ Len(catalog.indexes) > 1

\* the indexes registered for a table
IndexesOf(cat, table_name) == SelectSeq(cat.indexes, LAMBDA m : m.table_name = table_name)

\* C32: every registered table has a statistics entry and exactly one index
\* named pkey, which is unique and over the primary-key columns of the
\* table; every registered index names a registered table; and a drop_table
\* that returns removes the table, its statistics and its indexes and leaves
\* the schema, the statistics and the indexes of every other table as they
\* were
C32_EveryTableHasOnePkey ==
    [][/\ \A n \in DOMAIN catalog'.tables :
             /\ n \in DOMAIN catalog'.statistics
             /\ Cardinality({j \in 1..Len(catalog'.indexes) :
                                /\ catalog'.indexes[j].table_name = n
                                /\ catalog'.indexes[j].index_name = "pkey"}) = 1
             /\ \A j \in 1..Len(catalog'.indexes) :
                   (/\ catalog'.indexes[j].table_name = n
                    /\ catalog'.indexes[j].index_name = "pkey")
                      => /\ catalog'.indexes[j].unique
                         /\ catalog'.indexes[j].columns = catalog'.tables[n].primary_key
       /\ \A j \in 1..Len(catalog'.indexes) :
             catalog'.indexes[j].table_name \in DOMAIN catalog'.tables
       /\ (last'.op = "drop_table" /\ last'.raised = "")
             => /\ last'.table_name \notin DOMAIN catalog'.tables
                /\ last'.table_name \notin DOMAIN catalog'.statistics
                /\ IndexesOf(catalog', last'.table_name) = <<>>
                /\ \A n \in CatNames \ {last'.table_name} :
                      /\ n \in DOMAIN catalog'.tables <=> n \in DOMAIN catalog.tables
                      /\ n \in DOMAIN catalog.tables
                            => catalog'.tables[n] = catalog.tables[n]
                      /\ n \in DOMAIN catalog'.statistics <=> n \in DOMAIN catalog.statistics
                      /\ n \in DOMAIN catalog.statistics
                            => catalog'.statistics[n] = catalog.statistics[n]
                      /\ IndexesOf(catalog', n) = IndexesOf(catalog, n)]_vars

\* drop_table has removed a table while another table with a secondary
\* index stays registered
C32_Witness ==
    /\ last.op = "drop_table"
    /\ last.raised = ""
    /\ DOMAIN catalog.tables # {}
    /\ Len(catalog.indexes) > 1
    /\ catalog_file.data = catalog


(***************************************************************************)
(* SpecFile: one QueryExecutor session that creates, fills, explains and   *)
(* drops the table, with the catalog file beside the catalog in memory.    *)
(***************************************************************************)
ExecExplain(where) ==
    /\ Statement([type |-> "ExplainCommand"], execute_explain(TheState, where), None)
    /\ UNCHANGED <<ref, nops>>

NextFile ==
    \/ ExecCreateTable
    \/ \E values \in TxnRows : ExecInsert(values)
    \/ \E where \in Wheres : ExecExplain(where)
    \/ ExecDropTable

SpecFile == InitDrop /\ [][NextFile]_vars

\* C33: after every statement that returns, a fresh Catalog that loads the
\* catalog file holds the tables, indexes and statistics of the catalog in
\* memory
C33_FileEqualsMemory ==
    last.raised = "" => Catalog_load(catalog_file).cat = catalog

(***************************************************************************)
(* SpecLock: two QueryExecutor sessions on one data directory.  The files  *)
(* catalog_file, heap_file and index_files are those of the directory;     *)
(* catalog, buffer_pool, heap_files and indexes are the objects of session *)
(* 1 and ref keeps those of session 2 and which sessions are open.         *)
(* QueryExecutor.__init__ builds its Catalog, BufferPool and dictionaries  *)
(* and reads no lock file, so opening a session has no guard on the other. *)
(***************************************************************************)
Sessions == {1, 2}
Other(s) == 3 - s

InitLock ==
    /\ catalog = EmptyDirectory.catalog
    /\ catalog_file = EmptyDirectory.catalog_file
    /\ heap_file = EmptyDirectory.heap_file
    /\ index_files = EmptyDirectory.index_files
    /\ buffer_pool = EmptyDirectory.buffer_pool
    /\ heap_files = EmptyDirectory.heap_files
    /\ indexes = EmptyDirectory.indexes
    /\ last = [op |-> "QueryExecutor", raised |-> "", result |-> None, session |-> 1]
    /\ ref = [open |-> [s \in Sessions |-> s = 1],
              catalog |-> EmptyDirectory.catalog,
              buffer_pool |-> EmptyDirectory.buffer_pool,
              heap_files |-> EmptyDirectory.heap_files,
              indexes |-> EmptyDirectory.indexes]
    /\ nops = 0

\* what a statement of session s works on
SessionState(s) ==
    IF s = 1 THEN TheState
    ELSE [TheState EXCEPT !.catalog = ref.catalog, !.buffer_pool = ref.buffer_pool,
                          !.heap_files = ref.heap_files, !.indexes = ref.indexes]

SetSession(s, st, open) ==
    /\ catalog_file' = st.catalog_file
    /\ heap_file' = st.heap_file
    /\ index_files' = st.index_files
    /\ catalog' = IF s = 1 THEN st.catalog ELSE catalog
    /\ buffer_pool' = IF s = 1 THEN st.buffer_pool ELSE buffer_pool
    /\ heap_files' = IF s = 1 THEN st.heap_files ELSE heap_files
    /\ indexes' = IF s = 1 THEN st.indexes ELSE indexes
    /\ ref' = IF s = 1 THEN [ref EXCEPT !.open[s] = open]
              ELSE [open |-> [ref.open EXCEPT ![s] = open], catalog |-> st.catalog,
                    buffer_pool |-> st.buffer_pool, heap_files |-> st.heap_files,
                    indexes |-> st.indexes]

SessionStatement(s, command, handled) ==
    /\ ref.open[s]
    /\ SetSession(s, execute(SessionState(s), command, handled).st, TRUE)
    /\ last' = [op |-> command.type,
                raised |-> execute(SessionState(s), command, handled).raised,
                result |-> execute(SessionState(s), command, handled).result,
                session |-> s]

LockOpen(s) ==
    /\ ~ref.open[s]
    /\ SetSession(s, QueryExecutor(SessionState(s)), TRUE)
    /\ last' = [op |-> "QueryExecutor", raised |-> "", result |-> None, session |-> s]
    /\ UNCHANGED nops

LockShutdown(s) ==
    /\ ref.open[s]
    /\ SetSession(s, shutdown(SessionState(s)), FALSE)
    /\ last' = [op |-> "shutdown", raised |-> "", result |-> None, session |-> s]
    /\ UNCHANGED nops

LockCreateTable(s) ==
    /\ SessionStatement(s, [type |-> "CreateTableCommand"],
                        execute_create_table(SessionState(s), Schema, primary_key))
    /\ UNCHANGED nops

LockInsert(s, values) ==
    /\ nops < MaxWrites
    /\ SessionStatement(s, [type |-> "InsertCommand"],
                        execute_insert(SessionState(s), values))
    /\ nops' = nops + 1

LockSelect(s) ==
    /\ SessionStatement(s, [type |-> "SelectCommand"],
                        execute_select(SessionState(s), NoWhere))
    /\ UNCHANGED nops

NextLock ==
    \/ \E s \in Sessions : LockOpen(s)
    \/ \E s \in Sessions : LockShutdown(s)
    \/ \E s \in Sessions : LockCreateTable(s)
    \/ \E s \in Sessions, values \in TxnRows : LockInsert(s, values)
    \/ \E s \in Sessions : LockSelect(s)

SpecLock == InitLock /\ [][NextLock]_vars

\* C34: a session executes no statement while the other session is open on
\* the directory
C34_OneSessionOwnsTheDirectory ==
    (last.op \in Dispatched /\ last.raised = "") => ~ref.open[Other(last.session)]

(***************************************************************************)
(* SpecVacuum: one QueryExecutor session that creates the table, inserts   *)
(* and deletes rows by primary key, vacuums and selects.                   *)
(***************************************************************************)
ByKey == {[col |-> "id", val |-> IntV(id)] : id \in ExecIds}

ExecVacuum ==
    /\ Statement([type |-> "VacuumCommand"], execute_vacuum(TheState), None)
    /\ UNCHANGED <<ref, nops>>

NextVacuum ==
    \/ ExecCreateTable
    \/ \E values \in TxnRows : ExecInsert(values)
    \/ \E where \in ByKey : ExecDelete(where)
    \/ \E where \in ByKey : ExecSelect(where)
    \/ ExecVacuum

SpecVacuum == Init /\ [][NextVacuum]_vars

\* C35: after a VACUUM that returns, SELECT ... WHERE id = v returns for
\* every v the rows it returned before the VACUUM, and for every live row
\* the search of its key in the primary-key index returns a ctid at which
\* read_tuple returns that row
C35_VacuumKeepsIndexEntries ==
    [][(last'.op = "VacuumCommand" /\ last'.raised = "")
          => /\ \A where \in ByKey :
                   execute_select(TheState', where).result
                       = execute_select(TheState, where).result
             /\ \A j \in 1..Len(LiveTuples(TheState')) :
                   /\ BTreeIndex_search(IndexView(TheState', "pkey"),
                                        LiveTuples(TheState')[j].values[1]) # None
                   /\ read_tuple(HeapView(TheState'),
                                 BTreeIndex_search(IndexView(TheState', "pkey"),
                                                   LiveTuples(TheState')[j].values[1]),
                                 Schema).tuple = LiveTuples(TheState')[j].values]_vars

\* the entries an index on column a has when it has one entry for each live
\* row, under the row's key and ctid
RowEntries(st) ==
    {[key |-> truncate_key(LiveTuples(st)[j].values[2]), ctid |-> LiveTuples(st)[j].ctid] :
        j \in 1..Len(LiveTuples(st))}

SharedKey(st) ==
    \E j, j2 \in 1..Len(LiveTuples(st)) :
        /\ j # j2
        /\ truncate_key(LiveTuples(st)[j].values[2])
              = truncate_key(LiveTuples(st)[j2].values[2])

NonUniqueIndex(st) ==
    /\ "ia" \in DOMAIN st.index_files
    /\ \E j \in 1..Len(IndexMetas(st)) :
          IndexMetas(st)[j].index_name = "ia" /\ ~IndexMetas(st)[j].unique

\* C36: when several live rows share a key in the non-unique index on a and
\* the index has exactly one entry for each live row, a DELETE or UPDATE
\* that returns leaves the index with exactly one entry for each row that is
\* live afterwards
C36_SharedKeyEntryRemoved ==
    [][(/\ last'.op \in {"DeleteCommand", "UpdateCommand"}
        /\ last'.raised = ""
        /\ NonUniqueIndex(TheState)
        /\ SharedKey(TheState)
        /\ Entries(TheState, "ia") = RowEntries(TheState))
          => Entries(TheState', "ia") = RowEntries(TheState')]_vars

(***************************************************************************)
(* SpecDup: one non-unique BTreeIndex, created empty, that takes at most   *)
(* MaxDup inserts of the keys DupKeys, each with a ctid of its own, and    *)
(* range queries of one key.  ref is the set of [key, ctid] inserted.      *)
(***************************************************************************)
MaxDup == 6
DupKeys == {1, 2, 3}

InitDup ==
    /\ indexes = ("ix" :> HandleOf(BTreeIndex_create(FALSE)))
    /\ index_files = ("ix" :> BTreeIndex_create(FALSE).file)
    /\ ref = {}
    /\ catalog = None /\ catalog_file = None /\ heap_file = None
    /\ buffer_pool = None /\ heap_files = None
    /\ last = [op |-> "create", raised |-> "", key |-> 0, result |-> <<>>]
    /\ nops = 0

\* insert(key, (0, nops)): the ctid was given to no insert before
DupInsert(key) ==
    /\ nops < MaxDup
    /\ Descends(TheIndex)
    /\ LET r == BTreeIndex_insert(TheIndex, IntV(key), <<0, nops>>)
       IN  /\ indexes' = [indexes EXCEPT !["ix"] = HandleOf(r.ix)]
           /\ index_files' = [index_files EXCEPT !["ix"] = r.ix.file]
           /\ ref' = IF r.raised THEN ref
                     ELSE ref \cup {[key |-> key, ctid |-> <<0, nops>>]}
           /\ last' = [op |-> "insert", raised |-> r.exception, key |-> key,
                       result |-> <<>>]
    /\ nops' = nops + 1
    /\ UNCHANGED <<catalog, catalog_file, heap_file, buffer_pool, heap_files>>

\* range_query(key, key)
DupRangeQuery(key) ==
    /\ Descends(TheIndex)
    /\ last' = [op |-> "range_query", raised |-> "", key |-> key,
                result |-> BTreeIndex_range_query(TheIndex, IntV(key), IntV(key))]
    /\ UNCHANGED <<catalog, catalog_file, heap_file, index_files, buffer_pool,
                   heap_files, indexes, ref, nops>>

NextDup ==
    \/ \E key \in DupKeys : DupInsert(key)
    \/ \E key \in DupKeys : DupRangeQuery(key)

SpecDup == InitDup /\ [][NextDup]_vars

\* C37: on a non-unique index range_query(k, k) returns each ctid that k was
\* inserted with, once, and nothing else
C37_EqualKeysAllReturned ==
    last.op = "range_query"
       => /\ {last.result[j] : j \in 1..Len(last.result)}
                = {e.ctid : e \in {e \in ref : e.key = last.key}}
          /\ Len(last.result) = Cardinality({e \in ref : e.key = last.key})

(***************************************************************************)
(* SpecScan: one QueryExecutor session that creates the table and the      *)
(* non-unique index ia on a, inserts rows and selects; no row is updated   *)
(* or deleted and the session stays open.                                  *)
(***************************************************************************)
NextScan ==
    \/ ExecCreateTable
    \/ ExecCreateIndex(FALSE)
    \/ \E values \in ExecRows : ExecInsert(values)
    \/ \E where \in Wheres : ExecSelect(where)

SpecScan == Init /\ [][NextScan]_vars

\* the rows of a sequential scan filtered by the WHERE clause
SequentialSelect(st, where) == select_Filter(select_Scan(_get_heap_file(st)), where)

\* C38: for every WHERE clause for which the index scan is chosen, SELECT
\* returns the rows of a sequential scan filtered by the same clause
C38_ScanMethodsAgree ==
    T \in DOMAIN catalog.tables
       => \A where \in Wheres :
             _choose_scan_method(TheState, where) = "index"
                => /\ execute_select(TheState, where).raised
                         = SequentialSelect(TheState, where).raised
                   /\ execute_select(TheState, where).result
                         = SequentialSelect(TheState, where).result

\* C39: a CREATE UNIQUE INDEX ia that raises ValueError on a table whose
\* live rows share a key, while no index ia is registered, leaves the
\* catalog, the catalog file and the index files as they were, and every
\* INSERT raises afterwards what it would have raised before
C39_FailedCreateIndexLeavesNoTrace ==
    [][(/\ last'.op = "CreateIndexCommand"
        /\ last'.raised = "ValueError"
        /\ T \in DOMAIN catalog.tables
        /\ ~HasIndexKey(catalog.indexes, IndexKey(T, "ia"))
        /\ SharedKey(TheState))
          => /\ catalog' = catalog
             /\ catalog_file' = catalog_file
             /\ index_files' = index_files
             /\ \A values \in ExecRows :
                   execute_insert(TheState', values).raised
                       = execute_insert(TheState, values).raised]_vars

(***************************************************************************)
(* SpecBig: the HeapFile of SpecHeap with, besides Rows, a row whose       *)
(* record is within MAX_TUPLE_SIZE and longer than the space of an empty   *)
(* page.                                                                   *)
(***************************************************************************)
BigRow == <<IntV(1), TextV([j \in 1..(PAGE_SIZE - PAGE_HEADER_SIZE) |-> 120])>>

NextBig ==
    \/ \E values \in Rows \cup {BigRow} : HeapInsert(values)
    \/ HeapScan

SpecBig == InitHeap /\ [][NextBig]_vars

\* C40: an insert_tuple that raises leaves page_count, the free-space map,
\* the page count of the file header and the pages of the file as they were
C40_FailedInsertLeavesHeap ==
    [][(last'.op = "insert_tuple" /\ last'.raised # "")
          => /\ heap_files' = heap_files
             /\ heap_file'.page_count = heap_file.page_count
             /\ Len(heap_file'.pages) = Len(heap_file.pages)]_vars
=============================================================================
